---- MODULE Spec2Model ----
(***************************************************************************)
(* Chat-template grammar objects (TemplateMeta), their token resolution   *)
(* and the template registry of swift/llm/template/register.py.           *)
(*                                                                         *)
(* A Prompt is a Python list whose segments are either a str (literal     *)
(* text that may embed the placeholders {{SYSTEM}} / {{QUERY}}) or a list *)
(* whose elements are str (the name of a tokenizer attribute such as      *)
(* 'eos_token_id') or int (a token id).  Objects live in a heap and are   *)
(* referred to by their index, so that two references to one object and   *)
(* two equal copies of it are different things.                           *)
(***************************************************************************)
EXTENDS Integers, Sequences, FiniteSets, TLC

VARIABLES
    heap,               \* the TemplateMeta / template objects that exist, by object id
    TEMPLATE_MAPPING,   \* register.py:12, template_type -> template_info
    call                \* the most recent call: its operation, arguments and outcome

vars == <<heap, TEMPLATE_MAPPING, call>>

----------------------------------------------------------------------------
(* Values *)

\* one piece of a Python str segment: either literal text or a placeholder
Txt(s) == [t |-> "txt", s |-> s, n |-> 0]
\* a str element of a list segment: the name of a tokenizer attribute
Attr(name) == [t |-> "attr", s |-> name, n |-> 0]
\* an int element of a list segment: a token id
Id(i) == [t |-> "int", s |-> "", n |-> i]
\* a None element of a list segment (what getattr returns for an unset id)
NoneElem == [t |-> "none", s |-> "", n |-> 0]

\* a str segment, as the sequence of its pieces
Str(pieces) == [k |-> "str", v |-> pieces]
\* a list segment
Lst(elems) == [k |-> "list", v |-> elems]

\* Python None for an Optional[Prompt] field
None == <<[k |-> "None", v |-> <<>>]>>
\* Python None for an Optional[str] field
NoneStr == "None"
\* Python None for an Optional object reference / an absent dict key
NoObj == 0

SYSTEM == "{{SYSTEM}}"
QUERY == "{{QUERY}}"

\* a mutable list held by a field: the list object (id) and its elements.
\* The id is that of the TemplateMeta the list was made for; two fields
\* with one id are two references to one list.
ListRef(id, v) == [id |-> id, v |-> v]
\* a list made for the call that passes it: it gets its id from the object built
Fresh(v) == ListRef(NoObj, v)

----------------------------------------------------------------------------
(* The tokenizer (vocabulary): getattr(tokenizer, name) *)

Tokenizers == {"tokA", "tokB"}
NoTokenizer == "NoTokenizer"

\* hasattr(tokenizer, name): getattr raises AttributeError otherwise
HasAttr(tok, name) ==
    \/ name \in {"bos_token_id", "eos_token_id", "pad_token_id"}
    \/ tok = "tokA" /\ name = "eot_token_id"

\* getattr(tokenizer, name) for an attribute the tokenizer has
GetAttr(tok, name) ==
    IF tok = "tokA"
    THEN CASE name = "bos_token_id" -> Id(1)
           [] name = "eos_token_id" -> Id(2)
           [] name = "pad_token_id" -> Id(3)
           [] OTHER -> Id(4)
    ELSE CASE name = "bos_token_id" -> Id(11)
           [] name = "eos_token_id" -> Id(12)
           [] OTHER -> NoneElem

----------------------------------------------------------------------------
(* TemplateMeta: construction *)

\* '{{SYSTEM}}' in p : substring test on a str, membership test on a list
InSegment(p) ==
    \E j \in 1..Len(p.v) : p.v[j].s = SYSTEM

\* TemplateMeta._has_system
_has_system(prefix_or_prompt) ==
    \E i \in 1..Len(prefix_or_prompt) : InSegment(prefix_or_prompt[i])

\* p.replace('{{SYSTEM}}', '') on a str
StrReplaceSystem(p) ==
    Str(SelectSeq(p.v, LAMBDA x : x.s # SYSTEM))

\* TemplateMeta._replace_system raises AttributeError on a list segment,
\* which has no method replace
_replace_system_raises(prefix) ==
    \E i \in 1..Len(prefix) : prefix[i].k = "list"

\* TemplateMeta._replace_system
_replace_system(prefix) ==
    [i \in 1..Len(prefix) |-> StrReplaceSystem(prefix[i])]

\* [context for context in self.prompt if '{{SYSTEM}}' not in context]
DropSystemSegments(prompt) ==
    SelectSeq(prompt, LAMBDA p : ~InSegment(p))

\* the values of the fields while __post_init__ runs, in program order
PI_system_prefix(a) ==
    IF _has_system(a.prefix) THEN a.prefix ELSE a.system_prefix
PI_prefix(a) ==
    IF _has_system(a.prefix) THEN _replace_system(a.prefix) ELSE a.prefix
PI_is_post_system(a) == _has_system(a.prompt)
PI_prompt(a) ==
    IF PI_is_post_system(a) THEN DropSystemSegments(a.prompt) ELSE a.prompt
\* support_system with the post-system style left out of the test
PI_support_system_prefix_only(a) ==
    PI_system_prefix(a) # None
PI_support_system(a) ==
    ~(PI_system_prefix(a) = None /\ ~PI_is_post_system(a))
\* support_multi_round set whatever chat_sep is
PI_support_multi_round_always(a) == TRUE
PI_support_multi_round(a) == a.chat_sep # None
\* tool_prompt defaulting to the prompt as it was passed
PI_tool_prompt_as_passed(a) ==
    IF a.tool_prompt = None THEN a.prompt ELSE a.tool_prompt
PI_tool_prompt(a) ==
    IF a.tool_prompt = None THEN PI_prompt(a) ELSE a.tool_prompt

\* check_system without the assertion
check_system_raises_never(support_system, system) == "ok"

\* TemplateMeta.check_system: the exception it raises, "ok" if none
check_system_raises(support_system, system) ==
    LET s == IF system = NoneStr THEN "" ELSE system
    IN  IF s # "" /\ ~support_system THEN "AssertionError" ELSE "ok"

\* TemplateMeta.check_system: the value it returns
check_system(support_system, system) ==
    IF system = NoneStr THEN "" ELSE system

\* TemplateMeta.__post_init__: the exception it raises, "ok" if none
post_init_raises(a) ==
    IF _has_system(a.prefix) /\ a.system_prefix # None THEN "AssertionError"
    ELSE IF _has_system(a.prefix) /\ _replace_system_raises(a.prefix) THEN "AttributeError"
    ELSE check_system_raises(PI_support_system(a), a.default_system)

\* TemplateMeta.__post_init__: the object it leaves when it raises nothing
post_init(a) ==
    [ template_type       |-> a.template_type,
      prefix              |-> PI_prefix(a),
      prompt              |-> PI_prompt(a),
      chat_sep            |-> a.chat_sep,
      suffix              |-> a.suffix,
      tool_prompt         |-> PI_tool_prompt(a),
      system_prefix       |-> PI_system_prefix(a),
      default_system      |-> check_system(PI_support_system(a), a.default_system),
      is_post_system      |-> PI_is_post_system(a),
      system_prompt       |-> IF PI_is_post_system(a) THEN PI_prompt(a) ELSE None,
      support_system      |-> PI_support_system(a),
      support_multi_round |-> PI_support_multi_round(a),
      \* the dataclass fields __post_init__ leaves as they were passed
      template_cls        |-> a.template_cls,
      auto_add_bos        |-> a.auto_add_bos,
      stop_words          |-> a.stop_words,
      placeholder_tokens  |-> a.placeholder_tokens,
      skip_prompt         |-> a.skip_prompt,
      default_tools_prompt |-> a.default_tools_prompt,
      support_stream      |-> a.support_stream,
      \* set by the template's initialisation, unset on a fresh object
      tokenizer           |-> NoTokenizer,
      max_length          |-> 0,
      truncation_strategy |-> "delete" ]

----------------------------------------------------------------------------
(* TemplateMeta: token resolution *)

\* the segment fields token_attr_to_id walks, in its order (register.py:124)
ResolvedKeys == <<"prefix", "prompt", "chat_sep", "suffix", "system_prefix">>

\* getattr(tokenizer, sub_v) raises AttributeError for some element of value
_token_attr_to_id_raises(tokenizer, value) ==
    /\ value # None
    /\ \E i \in 1..Len(value) :
          /\ value[i].k = "list"
          /\ \E j \in 1..Len(value[i].v) :
                /\ value[i].v[j].t = "attr"
                /\ ~HasAttr(tokenizer, value[i].v[j].s)

\* _token_attr_to_id with the unresolved list segments appended after the
\* resolved ones instead of being replaced by them
_token_attr_to_id_keeping(tokenizer, value) ==
    IF value = None THEN None
    ELSE [i \in 1..Len(value) |->
            IF value[i].k = "list"
            THEN Lst([j \in 1..Len(value[i].v) |->
                        IF value[i].v[j].t = "attr"
                        THEN GetAttr(tokenizer, value[i].v[j].s)
                        ELSE value[i].v[j]])
            ELSE value[i]]
         \o SelectSeq(value, LAMBDA p : p.k = "list")

\* _token_attr_to_id testing `not value` instead of `value is None`: an
\* empty field comes back as None
_token_attr_to_id_falsy(tokenizer, value) ==
    IF value = None \/ value = <<>> THEN None
    ELSE [i \in 1..Len(value) |->
            IF value[i].k = "list"
            THEN Lst([j \in 1..Len(value[i].v) |->
                        IF value[i].v[j].t = "attr"
                        THEN GetAttr(tokenizer, value[i].v[j].s)
                        ELSE value[i].v[j]])
            ELSE value[i]]

\* TemplateMeta._token_attr_to_id: a new list; only str elements of list
\* segments are looked up, everything else passes through
_token_attr_to_id(tokenizer, value) ==
    IF value = None THEN None
    ELSE [i \in 1..Len(value) |->
            IF value[i].k = "list"
            THEN Lst([j \in 1..Len(value[i].v) |->
                        IF value[i].v[j].t = "attr"
                        THEN GetAttr(tokenizer, value[i].v[j].s)
                        ELSE value[i].v[j]])
            ELSE value[i]]

\* the position in ResolvedKeys of the first field on which the loop of
\* token_attr_to_id raises, Len(ResolvedKeys) + 1 if it completes
FirstRaise(o, tokenizer) ==
    LET bad == {i \in 1..Len(ResolvedKeys) :
                    _token_attr_to_id_raises(tokenizer, o[ResolvedKeys[i]])}
    IN  IF bad = {} THEN Len(ResolvedKeys) + 1
        ELSE CHOOSE i \in bad : \A j \in bad : i <= j

token_attr_to_id_raises(o, tokenizer) ==
    IF FirstRaise(o, tokenizer) <= Len(ResolvedKeys) THEN "AttributeError" ELSE "ok"

\* TemplateMeta.token_attr_to_id: the object as the loop leaves it.  Each
\* field is set as soon as it is resolved, so the fields before the one
\* that raises stay resolved.
token_attr_to_id(o, tokenizer) ==
    [f \in DOMAIN o |->
        IF \E i \in 1..(FirstRaise(o, tokenizer) - 1) : ResolvedKeys[i] = f
        THEN _token_attr_to_id(tokenizer, o[f])
        ELSE o[f]]

\* a field still holds the name of a tokenizer attribute
HasSymbolic(value) ==
    \E i \in 1..Len(value) :
        value[i].k = "list" /\ \E j \in 1..Len(value[i].v) : value[i].v[j].t = "attr"

\* a list segment of the field holds something that is not an int
HasNonInt(value) ==
    \E i \in 1..Len(value) :
        value[i].k = "list" /\ \E j \in 1..Len(value[i].v) : value[i].v[j].t # "int"

----------------------------------------------------------------------------
(* The calls *)

\* the fields of TemplateMeta, each with its default where it has one
NoArgs ==
    [ template_type |-> "", prefix |-> <<>>, prompt |-> <<>>, chat_sep |-> None,
      suffix |-> <<>>, template_cls |-> "Template", tool_prompt |-> None,
      system_prefix |-> None, auto_add_bos |-> FALSE, default_system |-> NoneStr,
      stop_words |-> Fresh(<<>>), placeholder_tokens |-> Fresh(<<>>),
      skip_prompt |-> TRUE, default_tools_prompt |-> "react_en",
      support_stream |-> TRUE ]

\* what encode returns or raises; "none" before any call
NoExample ==
    [ status |-> "none", error |-> "ok", token_ids |-> <<>>, labels |-> <<>>,
      origin |-> <<>>, refs |-> <<>>, truncated |-> FALSE ]

\* ret: the object returned; value: the str returned
NoCall ==
    [ op |-> "none", args |-> NoArgs, obj |-> NoObj, tokenizer |-> NoTokenizer,
      template_type |-> "", exist_ok |-> FALSE, template |-> NoObj,
      raised |-> "ok", ret |-> NoObj, value |-> NoneStr, returned |-> NoneStr,
      conversation |-> <<>>, max_length |-> 0, truncation_strategy |-> "delete",
      strict |-> FALSE, example |-> NoExample, result |-> <<>>,
      row |-> <<>> ]

\* the lists passed fresh to a constructor belong to the object id it builds
Allocate(o, id) ==
    [o EXCEPT !.stop_words.id = IF @ = NoObj THEN id ELSE @,
              !.placeholder_tokens.id = IF @ = NoObj THEN id ELSE @]

\* copy.deepcopy(o), the copy being object id: its lists are new lists
deepcopy(o, id) ==
    [o EXCEPT !.stop_words.id = id, !.placeholder_tokens.id = id]

\* TemplateMeta(**a): dataclass __init__ followed by __post_init__.  The
\* new object gets the next object id; nothing is created when it raises.
NewTemplateMeta(a) ==
    /\ heap' = IF post_init_raises(a) = "ok"
               THEN Append(heap, Allocate(post_init(a), Len(heap) + 1))
               ELSE heap
    /\ call' = [NoCall EXCEPT !.op = "TemplateMeta", !.args = a,
                              !.raised = post_init_raises(a),
                              !.ret = IF post_init_raises(a) = "ok"
                                      THEN Len(heap) + 1 ELSE NoObj]
    /\ UNCHANGED TEMPLATE_MAPPING

\* heap[o].token_attr_to_id(tokenizer): in place
TokenAttrToId(o, tokenizer) ==
    /\ o \in 1..Len(heap)
    /\ heap' = [heap EXCEPT ![o] = token_attr_to_id(heap[o], tokenizer)]
    /\ call' = [NoCall EXCEPT !.op = "token_attr_to_id", !.obj = o,
                              !.tokenizer = tokenizer,
                              !.raised = token_attr_to_id_raises(heap[o], tokenizer)]
    /\ UNCHANGED TEMPLATE_MAPPING

\* heap[o].check_system(system): reads support_system, changes nothing
CheckSystem(o, system) ==
    /\ o \in 1..Len(heap)
    /\ call' = [NoCall EXCEPT !.op = "check_system", !.obj = o,
                              !.value = system,
                              !.raised = check_system_raises(heap[o].support_system, system),
                              !.returned =
                                  IF check_system_raises(heap[o].support_system, system) = "ok"
                                  THEN check_system(heap[o].support_system, system)
                                  ELSE NoneStr]
    /\ UNCHANGED <<heap, TEMPLATE_MAPPING>>

----------------------------------------------------------------------------
(* Grammar study: one TemplateMeta is built from the fields below and then *)
(* resolved any number of times, against any tokenizer.                    *)

MetaPrefixes ==
    { <<>>,
      <<Str(<<Txt("<s>")>>)>>,
      <<Str(<<Txt("<sys>"), Txt(SYSTEM), Txt("<end>")>>)>>,
      <<Lst(<<Attr("bos_token_id")>>), Str(<<Txt(SYSTEM)>>)>> }
MetaPrompts ==
    { <<Str(<<Txt("<user>"), Txt(QUERY)>>)>>,
      <<Str(<<Txt(SYSTEM)>>), Str(<<Txt(QUERY)>>), Lst(<<Attr("eot_token_id")>>)>> }
MetaChatSeps ==
    { None, <<Lst(<<Attr("eos_token_id"), Id(7)>>), Str(<<Txt("<sep>")>>)>> }
MetaSuffixes ==
    { <<Lst(<<Attr("eos_token_id")>>)>>, <<Lst(<<Attr("pad_token_id")>>)>> }
MetaSystemPrefixes ==
    { None, <<Lst(<<Attr("bos_token_id")>>), Str(<<Txt(SYSTEM)>>)>> }
MetaToolPrompts ==
    { None, <<Str(<<Txt(QUERY)>>), Lst(<<Attr("eos_token_id")>>)>> }
MetaDefaultSystems == { NoneStr, "", "sys" }

MetaArgs ==
    [ template_type : {"chatml"}, prefix : MetaPrefixes, prompt : MetaPrompts,
      chat_sep : MetaChatSeps, suffix : MetaSuffixes, tool_prompt : MetaToolPrompts,
      system_prefix : MetaSystemPrefixes, default_system : MetaDefaultSystems,
      template_cls : {NoArgs.template_cls}, auto_add_bos : {NoArgs.auto_add_bos},
      stop_words : {Fresh(<<"<end>">>)}, placeholder_tokens : {NoArgs.placeholder_tokens},
      skip_prompt : {NoArgs.skip_prompt},
      default_tools_prompt : {NoArgs.default_tools_prompt},
      support_stream : {NoArgs.support_stream} ]

InitMeta ==
    /\ heap = <<>>
    /\ TEMPLATE_MAPPING = <<>>
    /\ call = NoCall

\* the grammar under study is built once
BuildMeta ==
    /\ heap = <<>>
    /\ \E a \in MetaArgs : NewTemplateMeta(a)

ResolveMeta ==
    \E o \in 1..Len(heap), tokenizer \in Tokenizers : TokenAttrToId(o, tokenizer)

\* the system messages check_system is asked about
Systems == { NoneStr, "", "sys", "You are a bot." }

CheckMeta ==
    \E o \in 1..Len(heap), system \in Systems : CheckSystem(o, system)

NextMeta == BuildMeta \/ ResolveMeta \/ CheckMeta

SpecMeta == InitMeta /\ [][NextMeta]_vars

----------------------------------------------------------------------------
(* TemplateMeta: the generation variant *)

\* to_generation_template_meta with the source's chat_sep and system_prefix
\* passed on
to_generation_template_meta_keeps_grammar(o) ==
    [NoArgs EXCEPT !.template_type = o.template_type,
                   !.prefix = <<>>,
                   !.prompt = <<Str(<<Txt(QUERY)>>)>>,
                   !.chat_sep = o.chat_sep,
                   !.suffix = <<Lst(<<Attr("eos_token_id")>>)>>,
                   !.system_prefix = o.system_prefix,
                   !.template_cls = o.template_cls,
                   !.auto_add_bos = TRUE,
                   !.stop_words = Fresh(o.stop_words.v),
                   !.placeholder_tokens = Fresh(o.placeholder_tokens.v),
                   !.skip_prompt = o.skip_prompt,
                   !.support_stream = o.support_stream]

\* to_generation_template_meta without skip_prompt and support_stream
to_generation_template_meta_drops_flags(o) ==
    [NoArgs EXCEPT !.template_type = o.template_type,
                   !.prefix = <<>>,
                   !.prompt = <<Str(<<Txt(QUERY)>>)>>,
                   !.chat_sep = None,
                   !.suffix = <<Lst(<<Attr("eos_token_id")>>)>>,
                   !.template_cls = o.template_cls,
                   !.auto_add_bos = TRUE,
                   !.stop_words = Fresh(o.stop_words.v),
                   !.placeholder_tokens = Fresh(o.placeholder_tokens.v)]

\* to_generation_template_meta without the deepcopy of stop_words and
\* placeholder_tokens: the source's lists themselves are passed
to_generation_template_meta_shares_lists(o) ==
    [NoArgs EXCEPT !.template_type = o.template_type,
                   !.prefix = <<>>,
                   !.prompt = <<Str(<<Txt(QUERY)>>)>>,
                   !.chat_sep = None,
                   !.suffix = <<Lst(<<Attr("eos_token_id")>>)>>,
                   !.template_cls = o.template_cls,
                   !.auto_add_bos = TRUE,
                   !.stop_words = o.stop_words,
                   !.placeholder_tokens = o.placeholder_tokens,
                   !.skip_prompt = o.skip_prompt,
                   !.support_stream = o.support_stream]

\* TemplateMeta.to_generation_template_meta: the arguments it passes to
\* TemplateMeta(...); the fields it does not pass take their defaults
to_generation_template_meta(o) ==
    [NoArgs EXCEPT !.template_type = o.template_type,
                   !.prefix = <<>>,
                   !.prompt = <<Str(<<Txt(QUERY)>>)>>,
                   !.chat_sep = None,
                   !.suffix = <<Lst(<<Attr("eos_token_id")>>)>>,
                   !.template_cls = o.template_cls,
                   !.auto_add_bos = TRUE,
                   !.stop_words = Fresh(o.stop_words.v),
                   !.placeholder_tokens = Fresh(o.placeholder_tokens.v),
                   !.skip_prompt = o.skip_prompt,
                   !.support_stream = o.support_stream]

\* heap[o].to_generation_template_meta()
ToGenerationTemplateMeta(o) ==
    LET a == to_generation_template_meta(heap[o])
    IN  /\ o \in 1..Len(heap)
        /\ heap' = IF post_init_raises(a) = "ok"
                   THEN Append(heap, Allocate(post_init(a), Len(heap) + 1))
                   ELSE heap
        /\ call' = [NoCall EXCEPT !.op = "to_generation_template_meta", !.obj = o,
                                  !.args = a,
                                  !.raised = post_init_raises(a),
                                  !.ret = IF post_init_raises(a) = "ok"
                                          THEN Len(heap) + 1 ELSE NoObj]
        /\ UNCHANGED TEMPLATE_MAPPING

\* the fields that hold a mutable list
ListFields == {"stop_words", "placeholder_tokens"}

\* heap[o].<f>.append(w): every reference to that list sees the new element
ListAppend(o, f, w) ==
    /\ o \in 1..Len(heap)
    /\ heap' = [p \in 1..Len(heap) |->
                  IF heap[p][f].id = heap[o][f].id
                  THEN [heap[p] EXCEPT ![f].v = Append(@, w)]
                  ELSE heap[p]]
    /\ call' = [NoCall EXCEPT !.op = "append", !.obj = o, !.value = f]
    /\ UNCHANGED TEMPLATE_MAPPING

\* heap[o].<f>.pop(): every reference to that list loses the last element
ListPop(o, f) ==
    /\ o \in 1..Len(heap)
    /\ heap[o][f].v # <<>>
    /\ heap' = [p \in 1..Len(heap) |->
                  IF heap[p][f].id = heap[o][f].id
                  THEN [heap[p] EXCEPT ![f].v = SubSeq(@, 1, Len(@) - 1)]
                  ELSE heap[p]]
    /\ call' = [NoCall EXCEPT !.op = "pop", !.obj = o, !.value = f]
    /\ UNCHANGED TEMPLATE_MAPPING

----------------------------------------------------------------------------
(* Generation-variant study: a TemplateMeta is built, its generation      *)
(* variant is derived, and both are resolved and have their lists changed. *)

\* how long stop_words and placeholder_tokens may grow
MaxWords == 2

GenGrammars ==
    { [NoArgs EXCEPT !.template_type = "chatml",
                     !.prefix = <<Lst(<<Attr("bos_token_id")>>)>>,
                     !.prompt = <<Str(<<Txt("<user>"), Txt(QUERY)>>)>>,
                     !.chat_sep = <<Lst(<<Attr("eos_token_id")>>)>>,
                     !.suffix = <<Lst(<<Attr("pad_token_id")>>)>>,
                     !.system_prefix = <<Str(<<Txt("<sys>"), Txt(SYSTEM)>>)>>],
      [NoArgs EXCEPT !.template_type = "mistral",
                     !.prefix = <<Str(<<Txt("<s>")>>)>>,
                     !.prompt = <<Str(<<Txt(SYSTEM)>>), Str(<<Txt(QUERY)>>)>>,
                     !.suffix = <<Lst(<<Attr("eos_token_id")>>)>>,
                     !.tool_prompt = <<Str(<<Txt("<tool>"), Txt(QUERY)>>)>>] }

\* the flags of a source: the defaults, or a value other than the default
\* for each of them
GenArgs ==
    GenGrammars
    \cup
    { [g EXCEPT !.auto_add_bos = TRUE,
                !.template_cls = "QwenTemplate",
                !.default_system = "sys",
                !.stop_words = Fresh(<<"<end>">>),
                !.placeholder_tokens = Fresh(<<"<img>">>),
                !.skip_prompt = FALSE,
                !.default_tools_prompt = "toolbench",
                !.support_stream = FALSE] : g \in GenGrammars }

InitGen ==
    /\ heap = <<>>
    /\ TEMPLATE_MAPPING = <<>>
    /\ call = NoCall

\* the source is built once
BuildGen ==
    /\ heap = <<>>
    /\ \E a \in GenArgs : NewTemplateMeta(a)

\* its variant is derived once
DeriveGen ==
    /\ Len(heap) = 1
    /\ ToGenerationTemplateMeta(1)

ResolveGen ==
    \E o \in 1..Len(heap) : TokenAttrToId(o, "tokA")

AppendGen ==
    \E o \in 1..Len(heap), f \in ListFields :
        /\ Len(heap[o][f].v) < MaxWords
        /\ ListAppend(o, f, "<w>")

PopGen ==
    \E o \in 1..Len(heap), f \in ListFields : ListPop(o, f)

NextGen == BuildGen \/ DeriveGen \/ ResolveGen \/ AppendGen \/ PopGen

SpecGen == InitGen /\ [][NextGen]_vars

----------------------------------------------------------------------------
(* The conversation encoder.  Template.encode lives in template/base.py;   *)
(* the definitions of this section follow section 4.3 of the              *)
(* specification, read over the TemplateMeta fields of register.py.       *)

\* the label of a position that is not trained on
Mask == -100

\* the id of the token a media placeholder span is expanded into, and how
\* many of them one span becomes
PlaceholderId == 99
ImageTokens == 2

\* a span of a turn's content
TextSpan(s) == [kind |-> "text", s |-> s]
ImageSpan(ref) == [kind |-> "image", s |-> ref]
Turn(role, content) == [role |-> role, content |-> content]

\* the text tokenizer: content text and the literal pieces of a grammar
Tokenize(s) ==
    CASE s = "hello" -> <<21>>
      [] s = "good day" -> <<22, 23>>
      [] s = "sys" -> <<24>>
      [] s = "be brief" -> <<25, 26>>
      [] s = "<user>" -> <<31>>
      [] s = "<end>" -> <<32>>
      [] s = "<sep>" -> <<33>>
      [] s = "<sys>" -> <<34>>
      [] s = "<tool>" -> <<35>>
      [] OTHER -> <<20>>

\* one position of the example under construction
Pos(id, train, origin, span, ref) ==
    [id |-> id, train |-> train, origin |-> origin, span |-> span, ref |-> ref,
     round |-> 0]

RECURSIVE Concat(_)
Concat(ss) == IF ss = <<>> THEN <<>> ELSE Head(ss) \o Concat(Tail(ss))

\* RenderSpans with the tokens of a placeholder span labelled like the text
\* around them
RenderSpansTrainable(content, origin, train, t) ==
    Concat([j \in 1..Len(content) |->
        IF content[j].kind = "text"
        THEN [i \in 1..Len(Tokenize(content[j].s)) |->
                Pos(Tokenize(content[j].s)[i], train, origin, 0, "")]
        ELSE [i \in 1..ImageTokens |->
                Pos(PlaceholderId, train, origin, 10 * t + j, content[j].s)]])

\* the content of turn t as positions (step 6): text is tokenized, a
\* placeholder span becomes ImageTokens masked placeholder tokens that
\* remember their span and its media reference
RenderSpans(content, origin, train, t) ==
    Concat([j \in 1..Len(content) |->
        IF content[j].kind = "text"
        THEN [i \in 1..Len(Tokenize(content[j].s)) |->
                Pos(Tokenize(content[j].s)[i], train, origin, 0, "")]
        ELSE [i \in 1..ImageTokens |->
                Pos(PlaceholderId, FALSE, origin, 10 * t + j, content[j].s)]])

\* one element of a grammar segment as positions
RenderElement(e, query, system, origin) ==
    CASE e.t = "txt" /\ e.s = QUERY -> query
      [] e.t = "txt" /\ e.s = SYSTEM -> system
      [] e.t = "txt" -> [i \in 1..Len(Tokenize(e.s)) |->
                            Pos(Tokenize(e.s)[i], FALSE, origin, 0, "")]
      [] e.t = "int" -> << Pos(e.n, FALSE, origin, 0, "") >>
      [] OTHER -> <<>>

\* the segments of a grammar field as masked positions, content substituted
\* for the placeholders; an unset field renders nothing
RenderSegments(value, query, system, origin) ==
    Concat([i \in 1..Len(value) |->
        Concat([j \in 1..Len(value[i].v) |->
            RenderElement(value[i].v[j], query, system, origin)])])

Tag(positions, r) ==
    [i \in 1..Len(positions) |-> [positions[i] EXCEPT !.round = r]]

\* step 1: an optional leading system turn, then user-or-tool and assistant
\* turns alternating, at least one round
HasSystemTurn(conversation) ==
    Len(conversation) > 0 /\ conversation[1].role = "system"
Body(conversation) ==
    IF HasSystemTurn(conversation) THEN Tail(conversation) ELSE conversation
ValidConversation(conversation) ==
    LET body == Body(conversation)
    IN  /\ Len(body) > 0
        /\ Len(body) % 2 = 0
        /\ \A i \in 1..Len(body) :
              IF i % 2 = 1 THEN body[i].role \in {"user", "tool"}
              ELSE body[i].role = "assistant"
Rounds(conversation) == Len(Body(conversation)) \div 2

\* the error of steps 1, 3 and 4, "ok" if there is none
encode_error(g, conversation) ==
    IF ~ValidConversation(conversation) THEN "SchemaError"
    ELSE IF HasSystemTurn(conversation) /\ ~g.support_system
         THEN "UnsupportedFeatureError"
    ELSE IF Rounds(conversation) > 1 /\ ~g.support_multi_round
         THEN "UnsupportedFeatureError"
    ELSE "ok"

\* step 3: the system content in use, the default when there is no turn
SystemInUse(g, conversation) ==
    IF HasSystemTurn(conversation) THEN conversation[1].content
    ELSE IF g.default_system # "" THEN << TextSpan(g.default_system) >>
    ELSE <<>>

\* steps 2 to 6: the positions of the whole example before length
\* enforcement
Render(g, conversation) ==
    LET body == Body(conversation)
        n == Rounds(conversation)
        system == RenderSpans(SystemInUse(g, conversation), "system", FALSE, 0)
        withSystem == SystemInUse(g, conversation) # <<>>
        head == IF withSystem /\ g.system_prefix # None
                THEN RenderSegments(g.system_prefix, <<>>, system, "prefix")
                ELSE RenderSegments(g.prefix, <<>>, <<>>, "prefix")
        Segs(r) == IF body[2 * r - 1].role = "tool" THEN g.tool_prompt
                   ELSE IF r = 1 /\ g.is_post_system /\ withSystem THEN g.system_prompt
                   ELSE g.prompt
        Round(r) ==
            (IF r > 1 THEN Tag(RenderSegments(g.chat_sep, <<>>, <<>>, "sep"), r - 1)
             ELSE <<>>)
            \o Tag(RenderSegments(Segs(r),
                       RenderSpans(body[2 * r - 1].content, "user", FALSE, 2 * r - 1),
                       IF r = 1 THEN system ELSE <<>>, "prompt"), r)
            \o Tag(RenderSpans(body[2 * r].content, "assistant", TRUE, 2 * r), r)
    IN  head \o Concat([r \in 1..n |-> Round(r)])
             \o Tag(RenderSegments(g.suffix, <<>>, <<>>, "suffix"), n)

\* truncation_left: the fewest positions, at least `excess`, that can go
\* from the front without splitting a placeholder span
CutLeft(positions, excess) ==
    LET ok == {k \in excess..Len(positions) :
                  \/ k = Len(positions)
                  \/ k = 0
                  \/ positions[k + 1].span = 0
                  \/ positions[k + 1].span # positions[k].span}
        k == CHOOSE k \in ok : \A j \in ok : k <= j
    IN  SubSeq(positions, k + 1, Len(positions))

\* the media references of the placeholder spans, in order of position
RECURSIVE Refs(_, _)
Refs(positions, last) ==
    IF positions = <<>> THEN <<>>
    ELSE (IF Head(positions).span # 0 /\ Head(positions).span # last
          THEN << Head(positions).ref >> ELSE <<>>)
         \o Refs(Tail(positions), Head(positions).span)

Example(positions, truncated) ==
    [ status |-> "ok", error |-> "ok",
      token_ids |-> [i \in 1..Len(positions) |-> positions[i].id],
      labels |-> [i \in 1..Len(positions) |->
                     IF positions[i].train THEN positions[i].id ELSE Mask],
      origin |-> [i \in 1..Len(positions) |-> positions[i].origin],
      refs |-> Refs(positions, 0),
      truncated |-> truncated ]

Failed(status, error) ==
    [NoExample EXCEPT !.status = status, !.error = error]

\* encode(resolved_grammar, conversation, max_length, truncation_strategy);
\* max_length 0 stands for no limit
encode(g, conversation, max_length, truncation_strategy, strict) ==
    IF encode_error(g, conversation) # "ok"
    THEN Failed(IF strict THEN "raised" ELSE "dropped", encode_error(g, conversation))
    ELSE LET all == Render(g, conversation)
             final == SelectSeq(all, LAMBDA p :
                         p.round = Rounds(conversation) /\ p.origin # "sep")
         IN  IF max_length = 0 \/ Len(all) <= max_length THEN Example(all, FALSE)
             ELSE IF Len(final) > max_length
                  THEN Failed("dropped", "TruncationImpossibleError")
             ELSE IF truncation_strategy = "delete" THEN Failed("dropped", "ok")
             ELSE Example(CutLeft(all, Len(all) - max_length), TRUE)

\* the grammar is a resolved one: no field the encoder renders holds a name
IsResolvedGrammar(g) ==
    \A f \in {"prefix", "prompt", "chat_sep", "suffix", "system_prefix",
              "tool_prompt", "system_prompt"} : ~HasSymbolic(g[f])

Encode(o, conversation, max_length, truncation_strategy, strict) ==
    /\ o \in 1..Len(heap)
    /\ IsResolvedGrammar(heap[o])
    /\ call' = [NoCall EXCEPT !.op = "encode", !.obj = o,
                              !.conversation = conversation,
                              !.max_length = max_length,
                              !.truncation_strategy = truncation_strategy,
                              !.strict = strict,
                              !.example = encode(heap[o], conversation, max_length,
                                                 truncation_strategy, strict)]
    /\ UNCHANGED <<heap, TEMPLATE_MAPPING>>

----------------------------------------------------------------------------
(* Encoding study: a grammar is built and resolved, then conversations are *)
(* encoded against it.                                                     *)

\* how many rounds a conversation may have
MaxRounds == 2

EncArgs ==
    { \* the chatml-style grammar of the concrete scenario
      [NoArgs EXCEPT !.template_type = "chatml",
                     !.prompt = <<Str(<<Txt("<user>"), Txt(QUERY), Txt("<end>")>>)>>,
                     !.chat_sep = <<Str(<<Txt("<sep>")>>)>>,
                     !.suffix = <<Lst(<<Attr("eos_token_id")>>)>>,
                     !.system_prefix = <<Str(<<Txt("<sys>"), Txt(SYSTEM), Txt("<end>")>>)>>,
                     !.tool_prompt = <<Str(<<Txt("<tool>"), Txt(QUERY), Txt("<end>")>>)>>],
      \* single round, no system
      [NoArgs EXCEPT !.template_type = "default",
                     !.prefix = <<Lst(<<Attr("bos_token_id")>>)>>,
                     !.prompt = <<Str(<<Txt(QUERY)>>)>>,
                     !.suffix = <<Lst(<<Attr("eos_token_id")>>)>>],
      \* post-system, with a default system
      [NoArgs EXCEPT !.template_type = "mistral",
                     !.prefix = <<Lst(<<Attr("bos_token_id")>>)>>,
                     !.prompt = <<Str(<<Txt(SYSTEM)>>), Str(<<Txt("<user>"), Txt(QUERY)>>)>>,
                     !.chat_sep = <<Lst(<<Attr("eos_token_id")>>)>>,
                     !.suffix = <<Lst(<<Attr("eos_token_id")>>)>>,
                     !.default_system = "be brief"] }

UserContents == { <<TextSpan("hello")>>, <<ImageSpan("a.png"), TextSpan("good day")>> }
AssistantContents == { <<TextSpan("good day")>>, <<TextSpan("hello"), ImageSpan("b.png")>> }

\* one round: a user or tool turn and the assistant's answer
RoundsOf ==
    { << Turn(r, u), Turn("assistant", a) >> :
        r \in {"user", "tool"}, u \in UserContents, a \in AssistantContents }

RECURSIVE Bodies(_)
Bodies(n) ==
    IF n = 1 THEN RoundsOf
    ELSE Bodies(n - 1) \cup { b \o r : b \in Bodies(n - 1), r \in RoundsOf }

SystemTurn == Turn("system", <<TextSpan("sys")>>)

\* conversations that break the turn order
Malformed ==
    { <<>>,
      << Turn("user", <<TextSpan("hello")>>) >>,
      << Turn("assistant", <<TextSpan("hello")>>) >>,
      << Turn("user", <<TextSpan("hello")>>), Turn("user", <<TextSpan("hello")>>) >>,
      << Turn("user", <<TextSpan("hello")>>), Turn("assistant", <<TextSpan("hello")>>),
         SystemTurn >>,
      << SystemTurn, SystemTurn, Turn("user", <<TextSpan("hello")>>),
         Turn("assistant", <<TextSpan("hello")>>) >> }

Conversations ==
    Bodies(MaxRounds) \cup { <<SystemTurn>> \o b : b \in Bodies(MaxRounds) } \cup Malformed

\* 0: no limit
MaxLengths == { 0, 5, 9 }

InitEnc ==
    /\ heap = <<>>
    /\ TEMPLATE_MAPPING = <<>>
    /\ call = NoCall

BuildEnc ==
    /\ heap = <<>>
    /\ \E a \in EncArgs : NewTemplateMeta(a)

ResolveEnc ==
    \E o \in 1..Len(heap) : TokenAttrToId(o, "tokA")

\* encode changes no object, so an encode right after another reaches
\* nothing new: the study encodes once after a build or a resolution
EncodeEnc ==
    /\ call.op # "encode"
    /\ \E o \in 1..Len(heap), conversation \in Conversations, max_length \in MaxLengths,
          truncation_strategy \in {"delete", "truncation_left"}, strict \in BOOLEAN :
            Encode(o, conversation, max_length, truncation_strategy, strict)

NextEnc == BuildEnc \/ ResolveEnc \/ EncodeEnc

SpecEncode == InitEnc /\ [][NextEnc]_vars

----------------------------------------------------------------------------
(* The training pipeline: SwiftSft._get_dataset and _encode_dataset *)

\* a dataset value: None, what load_dataset returned (mode "raw": which
\* datasets it was loaded from, with which split ratio, and which of the two
\* parts it is), or such a dataset wrapped by one of the encoding modes
NoDataset ==
    [ mode |-> "None", from |-> "", ratio |-> 0, part |-> "",
      strict |-> FALSE, random_state |-> 0, max_length |-> 0, lazy_tokenize |-> FALSE ]

\* load_dataset(datasets, split_dataset_ratio, **dataset_kwargs), of
\* dataset/loader.py: (train, val); the ratio is in percent; nothing is
\* split off with ratio 0 and nothing is left with ratio 100
load_dataset(datasets, split_dataset_ratio) ==
    << IF split_dataset_ratio = 100 THEN NoDataset
       ELSE [NoDataset EXCEPT !.mode = "raw", !.from = datasets,
                              !.ratio = split_dataset_ratio, !.part = "train"],
       IF split_dataset_ratio = 0 THEN NoDataset
       ELSE [NoDataset EXCEPT !.mode = "raw", !.from = datasets,
                              !.ratio = split_dataset_ratio, !.part = "val"] >>

\* SwiftSft._get_dataset: args as it leaves them, and the pair it returns.
\* The second load_dataset rebinds val_dataset in both branches.
_get_dataset(args) ==
    LET args1 == IF args.val_dataset # ""
                 THEN [args EXCEPT !.split_dataset_ratio = 0] ELSE args
        loaded == load_dataset(args1.dataset, args1.split_dataset_ratio)
    IN  [ args |-> args1, train_dataset |-> loaded[1], val_dataset |-> loaded[2] ]

\* LazyLLMDataset(dataset, template.encode, strict=..., random_state=...)
LazyLLMDataset(dataset, strict, random_state) ==
    [dataset EXCEPT !.mode = "lazy", !.strict = strict, !.random_state = random_state]

\* ConstantLengthDataset.get_packed_dataset(template, dataset, max_length,
\*                                          lazy_tokenize=...)
get_packed_dataset(dataset, max_length, lazy_tokenize) ==
    [dataset EXCEPT !.mode = "packed", !.max_length = max_length,
                    !.lazy_tokenize = lazy_tokenize]

\* EncodePreprocessor(template)(dataset, ...)
EncodePreprocessor(dataset) ==
    [dataset EXCEPT !.mode = "eager"]

\* _encode_dataset testing packing before lazy_tokenize
_encode_dataset_packing_first(args, train_dataset, val_dataset) ==
    IF args.packing
    THEN << get_packed_dataset(train_dataset, args.max_length, args.lazy_tokenize),
            IF val_dataset # NoDataset
            THEN get_packed_dataset(val_dataset, args.max_length, args.lazy_tokenize)
            ELSE val_dataset >>
    ELSE IF args.lazy_tokenize
    THEN << LazyLLMDataset(train_dataset, args.strict, args.data_seed),
            IF val_dataset # NoDataset
            THEN LazyLLMDataset(val_dataset, args.strict, args.data_seed)
            ELSE val_dataset >>
    ELSE << EncodePreprocessor(train_dataset),
            IF val_dataset # NoDataset THEN EncodePreprocessor(val_dataset)
            ELSE val_dataset >>

\* SwiftSft._encode_dataset: the pair it returns
_encode_dataset(args, train_dataset, val_dataset) ==
    IF args.lazy_tokenize
    THEN << LazyLLMDataset(train_dataset, args.strict, args.data_seed),
            IF val_dataset # NoDataset
            THEN LazyLLMDataset(val_dataset, args.strict, args.data_seed)
            ELSE val_dataset >>
    ELSE IF args.packing
    THEN << get_packed_dataset(train_dataset, args.max_length, args.lazy_tokenize),
            IF val_dataset # NoDataset
            THEN get_packed_dataset(val_dataset, args.max_length, args.lazy_tokenize)
            ELSE val_dataset >>
    ELSE << EncodePreprocessor(train_dataset),
            IF val_dataset # NoDataset THEN EncodePreprocessor(val_dataset)
            ELSE val_dataset >>

\* the arguments of a training run; val_dataset "" stands for the empty list
SftArgs ==
    [ dataset : {"alpaca"}, val_dataset : {"", "alpaca-val"},
      split_dataset_ratio : {0, 1, 20},
      lazy_tokenize : BOOLEAN, packing : BOOLEAN, strict : BOOLEAN,
      data_seed : {7, 42}, max_length : {5, 9} ]

\* SwiftSft(args): the pipeline object before run; args0 keeps the
\* arguments as they were passed
NewSwiftSft(args) ==
    /\ heap' = Append(heap, [ args |-> args, args0 |-> args, pc |-> "run",
                              train_dataset |-> NoDataset, val_dataset |-> NoDataset,
                              loaded_train |-> NoDataset, loaded_val |-> NoDataset ])
    /\ call' = [NoCall EXCEPT !.op = "SwiftSft", !.ret = Len(heap) + 1]
    /\ UNCHANGED TEMPLATE_MAPPING

\* run: train_dataset, val_dataset = self._get_dataset()
GetDataset(o) ==
    /\ o \in 1..Len(heap)
    /\ heap[o].pc = "run"
    /\ LET got == _get_dataset(heap[o].args)
       IN  heap' = [heap EXCEPT ![o] =
                       [@ EXCEPT !.args = got.args, !.pc = "_encode_dataset",
                                 !.train_dataset = got.train_dataset,
                                 !.val_dataset = got.val_dataset,
                                 !.loaded_train = got.train_dataset,
                                 !.loaded_val = got.val_dataset]]
    /\ call' = [NoCall EXCEPT !.op = "_get_dataset", !.obj = o]
    /\ UNCHANGED TEMPLATE_MAPPING

\* run: train_dataset, val_dataset = self._encode_dataset(train_dataset, val_dataset)
EncodeDataset(o) ==
    /\ o \in 1..Len(heap)
    /\ heap[o].pc = "_encode_dataset"
    /\ LET got == _encode_dataset(heap[o].args, heap[o].train_dataset, heap[o].val_dataset)
       IN  heap' = [heap EXCEPT ![o] =
                       [@ EXCEPT !.pc = "_get_data_collator",
                                 !.train_dataset = got[1],
                                 !.val_dataset = got[2]]]
    /\ call' = [NoCall EXCEPT !.op = "_encode_dataset", !.obj = o]
    /\ UNCHANGED TEMPLATE_MAPPING

InitSft ==
    /\ heap = <<>>
    /\ TEMPLATE_MAPPING = <<>>
    /\ call = NoCall

NewSft ==
    /\ heap = <<>>
    /\ \E args \in SftArgs : NewSwiftSft(args)

GetDatasetSft == \E o \in 1..Len(heap) : GetDataset(o)

EncodeDatasetSft == \E o \in 1..Len(heap) : EncodeDataset(o)

NextSft == NewSft \/ GetDatasetSft \/ EncodeDatasetSft

SpecSft == InitSft /\ [][NextSft]_vars

----------------------------------------------------------------------------
(* plugin/metric.py: Metric and MeanMetric *)

RECURSIVE Sum(_)
Sum(values) == IF values = <<>> THEN 0 ELSE Head(values) + Sum(Tail(values))

\* what update is passed: a scalar, or a list or tuple (a tensor or an array
\* becomes one of the two by tolist())
Scalar(v) == [list |-> FALSE, v |-> <<v>>]
List(vs) == [list |-> TRUE, v |-> vs]

\* MeanMetric(): add_state('state', default=0.), add_state('count', default=0).
\* seen is not a field of the object: it records the values passed to
\* update since the last reset.
MeanMetric_init ==
    [ _default |-> [state |-> 0, count |-> 0], state |-> 0, count |-> 0, seen |-> <<>> ]

\* Metric.reset: every state goes back to its default
Metric_reset(o) ==
    [f \in DOMAIN o |-> IF f \in DOMAIN o._default THEN o._default[f] ELSE o[f]]

\* MeanMetric.update counting a list as one value
MeanMetric_update_counts_one(o, state) ==
    [o EXCEPT !.state = @ + Sum(state.v), !.count = @ + 1]

\* MeanMetric.update
MeanMetric_update(o, state) ==
    [o EXCEPT !.state = @ + (IF state.list THEN Sum(state.v) ELSE state.v[1]),
              !.count = @ + (IF state.list THEN Len(state.v) ELSE 1)]

\* MeanMetric.compute: 'value', the quotient kept as <<dividend, divisor>>
MeanMetric_compute(o) ==
    IF o.count > 0 THEN <<o.state, o.count>> ELSE <<0, 1>>

NewMeanMetric ==
    /\ heap' = Append(heap, MeanMetric_init)
    /\ call' = [NoCall EXCEPT !.op = "MeanMetric", !.ret = Len(heap) + 1]
    /\ UNCHANGED TEMPLATE_MAPPING

MeanUpdate(o, state) ==
    /\ o \in 1..Len(heap)
    /\ heap' = [heap EXCEPT ![o] =
                   [MeanMetric_update(heap[o], state) EXCEPT !.seen = @ \o state.v]]
    /\ call' = [NoCall EXCEPT !.op = "update", !.obj = o, !.result = state.v]
    /\ UNCHANGED TEMPLATE_MAPPING

MeanReset(o) ==
    /\ o \in 1..Len(heap)
    /\ heap' = [heap EXCEPT ![o] = [Metric_reset(heap[o]) EXCEPT !.seen = <<>>]]
    /\ call' = [NoCall EXCEPT !.op = "reset", !.obj = o]
    /\ UNCHANGED TEMPLATE_MAPPING

MeanCompute(o) ==
    /\ o \in 1..Len(heap)
    /\ call' = [NoCall EXCEPT !.op = "compute", !.obj = o,
                              !.result = MeanMetric_compute(heap[o])]
    /\ UNCHANGED <<heap, TEMPLATE_MAPPING>>

\* how many values a metric may be given between two resets
MaxValues == 4

MeanStates ==
    { Scalar(1), Scalar(4), List(<<>>), List(<<2>>), List(<<1, 4>>) }

InitMean ==
    /\ heap = <<>>
    /\ TEMPLATE_MAPPING = <<>>
    /\ call = NoCall

NewMean ==
    /\ heap = <<>>
    /\ NewMeanMetric

UpdateMean ==
    \E o \in 1..Len(heap), state \in MeanStates :
        /\ heap[o].count + Len(state.v) <= MaxValues
        /\ MeanUpdate(o, state)

ResetMean == \E o \in 1..Len(heap) : MeanReset(o)

ComputeMean == \E o \in 1..Len(heap) : MeanCompute(o)

NextMean == NewMean \/ UpdateMean \/ ResetMean \/ ComputeMean

SpecMean == InitMean /\ [][NextMean]_vars

----------------------------------------------------------------------------
(* plugin/metric.py: InferStats *)

\* the dicts an InferStats has made live in its field dicts, in the order
\* they were made; num_prompt_tokens and num_generated_tokens hold the
\* position of the dict they are bound to, so a dict made earlier stays
\* as whoever still holds it sees it.  A dict is a function from output ids
\* to counts; start_runtime is the time of the last reset, counted in resets.
EmptyDict == <<>>

\* d[k] = v
SetItem(d, k, v) == (k :> v) @@ d

\* sum(d.values())
SumValues(d) == Sum([i \in 1..Cardinality(DOMAIN d) |->
                        d[CHOOSE k \in DOMAIN d :
                              Cardinality({j \in DOMAIN d : j < k}) = i - 1]])

\* InferStats(): the three add_state calls, each with a default_factory
InferStats_init ==
    [ dicts |-> <<EmptyDict, EmptyDict>>, start_runtime |-> 0,
      num_prompt_tokens |-> 1, num_generated_tokens |-> 2 ]

\* Metric.reset binding the two tables to the dicts made at construction
\* again, as it would with default= in place of default_factory=
InferStats_reset_shared_default(o) ==
    [o EXCEPT !.start_runtime = @ + 1,
              !.num_prompt_tokens = 1,
              !.num_generated_tokens = 2]

\* Metric.reset on an InferStats: every state is set to what its
\* default_factory returns, a new dict for each of the two tables
InferStats_reset(o) ==
    [o EXCEPT !.dicts = @ \o <<EmptyDict, EmptyDict>>,
              !.start_runtime = @ + 1,
              !.num_prompt_tokens = Len(o.dicts) + 1,
              !.num_generated_tokens = Len(o.dicts) + 2]

\* InferStats.update
InferStats_update(o, output) ==
    [o EXCEPT !.dicts[o.num_prompt_tokens] = SetItem(@, output.id, output.prompt_tokens),
              !.dicts[o.num_generated_tokens] =
                  SetItem(@, output.id, output.completion_tokens)]

\* InferStats.compute, without the entries that divide by the runtime
InferStats_compute(o) ==
    [ num_prompt_tokens |-> SumValues(o.dicts[o.num_prompt_tokens]),
      num_generated_tokens |-> SumValues(o.dicts[o.num_generated_tokens]),
      num_samples |-> Cardinality(DOMAIN o.dicts[o.num_generated_tokens]) ]

NewInferStats ==
    /\ heap' = Append(heap, InferStats_init)
    /\ call' = [NoCall EXCEPT !.op = "InferStats", !.ret = Len(heap) + 1]
    /\ UNCHANGED TEMPLATE_MAPPING

StatsUpdate(o, output) ==
    /\ o \in 1..Len(heap)
    /\ heap' = [heap EXCEPT ![o] = InferStats_update(heap[o], output)]
    /\ call' = [NoCall EXCEPT !.op = "update", !.obj = o, !.result = <<output>>]
    /\ UNCHANGED TEMPLATE_MAPPING

StatsReset(o) ==
    /\ o \in 1..Len(heap)
    /\ heap' = [heap EXCEPT ![o] = InferStats_reset(heap[o])]
    /\ call' = [NoCall EXCEPT !.op = "reset", !.obj = o]
    /\ UNCHANGED TEMPLATE_MAPPING

StatsCompute(o) ==
    /\ o \in 1..Len(heap)
    /\ call' = [NoCall EXCEPT !.op = "compute", !.obj = o,
                              !.result = <<InferStats_compute(heap[o])>>]
    /\ UNCHANGED <<heap, TEMPLATE_MAPPING>>

\* how many times a metric may be reset
MaxResets == 2

\* output ids are integers here; usage is (prompt_tokens, completion_tokens)
Outputs ==
    { [id |-> i, prompt_tokens |-> u[1], completion_tokens |-> u[2]] :
        i \in {1, 2}, u \in { <<1, 1>>, <<2, 3>> } }

InitStats ==
    /\ heap = <<>>
    /\ TEMPLATE_MAPPING = <<>>
    /\ call = NoCall

NewStats ==
    /\ heap = <<>>
    /\ NewInferStats

UpdateStats ==
    \E o \in 1..Len(heap), output \in Outputs : StatsUpdate(o, output)

ResetStats ==
    \E o \in 1..Len(heap) :
        /\ heap[o].start_runtime < MaxResets
        /\ StatsReset(o)

ComputeStats == \E o \in 1..Len(heap) : StatsCompute(o)

NextStats == NewStats \/ UpdateStats \/ ResetStats \/ ComputeStats

SpecStats == InitStats /\ [][NextStats]_vars

----------------------------------------------------------------------------
(* dataset/dataset.py: row preprocessors.  A dict is a function from its   *)
(* keys; a str that is sliced is a sequence of characters.                 *)

\* RowPreprocessor.empty_row, of dataset/preprocess: the row that stands
\* for "no row", every standard key None
RowPreprocessor_empty_row ==
    [ empty |-> TRUE, raised |-> "ok", messages |-> <<>>, images |-> <<>>,
      objects |-> <<>>, rejected_response |-> NoneStr ]

\* a row a preprocess returns
Row(messages) ==
    [RowPreprocessor_empty_row EXCEPT !.empty = FALSE, !.messages = messages]

\* a preprocess that raises
Raises(exception) ==
    [RowPreprocessor_empty_row EXCEPT !.empty = FALSE, !.raised = exception]

Message(role, content) == [role |-> role, content |-> content]

\* the pairs sorted by key (x[0], x[1])
Before(x, y) == x[1] < y[1] \/ (x[1] = y[1] /\ x[2] <= y[2])
RECURSIVE SortPairs(_)
SortPairs(pairs) ==
    IF pairs = <<>> THEN <<>>
    ELSE LET i == CHOOSE i \in 1..Len(pairs) :
                     /\ \A j \in 1..Len(pairs) : Before(pairs[i], pairs[j])
                     /\ \A j \in 1..(i - 1) : ~Before(pairs[j], pairs[i])
         IN  <<pairs[i]>>
             \o SortPairs(SubSeq(pairs, 1, i - 1) \o SubSeq(pairs, i + 1, Len(pairs)))

\* GritPreprocessor.has_overlap
has_overlap(start_ends) ==
    \E i \in 2..Len(start_ends) : start_ends[i][1] < start_ends[i - 1][2]

RefTag == "<ref-object><bbox>"

\* GritPreprocessor.replace_intervals_with_tags
RECURSIVE replace_intervals_with_tags_from(_, _, _)
replace_intervals_with_tags_from(response, start_ends, last_end) ==
    IF start_ends = <<>> THEN SubSeq(response, last_end + 1, Len(response))
    ELSE SubSeq(response, last_end + 1, Head(start_ends)[1])
         \o <<RefTag>>
         \o replace_intervals_with_tags_from(response, Tail(start_ends),
                                             Head(start_ends)[2])
replace_intervals_with_tags(response, start_ends) ==
    replace_intervals_with_tags_from(response, start_ends, 0)

\* GritPreprocessor.empty_row
GritPreprocessor_empty_row == RowPreprocessor_empty_row

GritQuery == "what is the proper caption of this image?"

\* GritPreprocessor.preprocess; a ref_exp is <<start, end, bbox>>.  objects
\* follows ref_exps, the tags follow the sorted pairs; json.dumps keeps the
\* order of the list.
GritPreprocessor_preprocess(row) ==
    LET objects == [i \in 1..Len(row.ref_exps) |->
                       [ caption |-> SubSeq(row.caption, row.ref_exps[i][1] + 1,
                                            row.ref_exps[i][2]),
                         bbox |-> row.ref_exps[i][3], bbox_type |-> "real", image |-> 0 ]]
        start_end_pairs == SortPairs([i \in 1..Len(row.ref_exps) |->
                                         <<row.ref_exps[i][1], row.ref_exps[i][2]>>])
    IN  IF has_overlap(start_end_pairs) THEN GritPreprocessor_empty_row
        ELSE [Row(<< Message("user", <<GritQuery>>),
                     Message("assistant",
                             replace_intervals_with_tags(row.caption, start_end_pairs)) >>)
                EXCEPT !.images = row.url, !.objects = objects]

\* how deep the interpreter lets calls nest before it raises RecursionError
RecursionLimit == 3

\* OrpoDPOMix40kPreprocessor.empty_row: it calls self.empty_row(), that is
\* itself, where the other preprocessors call super().empty_row()
RECURSIVE OrpoDPOMix40kPreprocessor_empty_row(_)
OrpoDPOMix40kPreprocessor_empty_row(depth) ==
    IF depth >= RecursionLimit THEN Raises("RecursionError")
    ELSE OrpoDPOMix40kPreprocessor_empty_row(depth + 1)

\* the loop of OrpoDPOMix40kPreprocessor.preprocess from turn i on; st holds
\* history, query, response, rejected_response and the exception raised
RECURSIVE OrpoLoop(_, _, _, _)
OrpoLoop(i, chosen_history, rejected_history, st) ==
    IF i > Len(chosen_history) \/ i > Len(rejected_history) \/ st.raised # "ok" THEN st
    ELSE LET role == chosen_history[i].role
             content == chosen_history[i].content
             rejected_role == rejected_history[i].role
             rejected_content == rejected_history[i].content
             next ==
               IF role # rejected_role THEN [st EXCEPT !.raised = "AssertionError"]
               ELSE IF (i - 1) % 2 = 0 /\ role # "user"
                    THEN [st EXCEPT !.raised = "AssertionError"]
               ELSE IF (i - 1) % 2 # 0 /\ role # "assistant"
                    THEN [st EXCEPT !.raised = "AssertionError"]
               ELSE IF content # rejected_content
                    THEN IF role # "assistant" THEN [st EXCEPT !.raised = "AssertionError"]
                         ELSE IF st.history = <<>>
                              THEN [st EXCEPT !.response = content,
                                              !.rejected_response = rejected_content,
                                              !.raised = "IndexError"]
                         ELSE [st EXCEPT !.response = content,
                                         !.rejected_response = rejected_content,
                                         !.query = st.history[Len(st.history)][1],
                                         !.history = SubSeq(@, 1, Len(@) - 1)]
               ELSE IF role = "user"
                    THEN [st EXCEPT !.history = Append(@, <<content, NoneStr>>)]
               ELSE IF st.history = <<>> THEN [st EXCEPT !.raised = "IndexError"]
               ELSE [st EXCEPT !.history[Len(st.history)][2] = content]
         IN  OrpoLoop(i + 1, chosen_history, rejected_history, next)

\* OrpoDPOMix40kPreprocessor.preprocess
OrpoDPOMix40kPreprocessor_preprocess(row) ==
    LET st == OrpoLoop(1, row.chosen, row.rejected,
                       [ history |-> <<>>, query |-> NoneStr, response |-> NoneStr,
                         rejected_response |-> NoneStr, raised |-> "ok" ])
        rounds == [h \in 1..Len(st.history) |->
                     << Message("user", st.history[h][1]),
                        Message("assistant", st.history[h][2]) >>]
        Flat[n \in 0..Len(rounds)] == IF n = 0 THEN <<>> ELSE Flat[n - 1] \o rounds[n]
    IN  IF st.raised # "ok" THEN OrpoDPOMix40kPreprocessor_empty_row(1)
        ELSE [Row(Flat[Len(rounds)] \o << Message("user", st.query),
                                          Message("assistant", st.response) >>)
                EXCEPT !.rejected_response = st.rejected_response]

\* SA1BPairedCaptionPreprocessor.preprocess; query is what np.random.choice
\* picked.  The second dict has the key 'query' where the first has 'role'.
SA1BPairedCaptionPreprocessor_preprocess(row, query) ==
    Row(<< [role |-> "user", content |-> query],
           [query |-> "assistant", content |-> row.global_caption] >>)

\* DureaderPreprocessor.preprocess: text1 is given as its parts around
\* '[SEP]'.  The two dicts are the elements of a set display, and a dict is
\* not hashable.
DureaderPreprocessor_preprocess(row) ==
    IF Len(row.text1) # 2 THEN Raises("ValueError") ELSE Raises("TypeError")

\* TigerBotLawPreprocessor.preprocess: one assistant turn holding the text
TigerBotLawPreprocessor_preprocess(row) ==
    Row(<< Message("assistant",
                   <<row.type, row.title>>
                   \o SelectSeq(row.chapters, LAMBDA c : c # NoneStr)
                   \o <<row.content>>) >>)

\* preprocessor.preprocess(row): the result depends on the row alone
Preprocess(preprocessor, row, result) ==
    /\ call' = [NoCall EXCEPT !.op = preprocessor, !.row = <<row>>, !.result = <<result>>]
    /\ UNCHANGED <<heap, TEMPLATE_MAPPING>>

----------------------------------------------------------------------------
(* Row study: each preprocessor is applied to the rows below.  Rows are     *)
(* mapped one by one and no row's result depends on another's, so each is *)
(* studied from the initial state.                                         *)

\* how many referring expressions a row may hold, and how many turns a
\* history may have
MaxRefs == 2
MaxTurns == 3

Caption == <<"a", "b", "c", "d">>

RefExps ==
    { r \in (0..Len(Caption)) \X (0..Len(Caption)) \X {1, 2} : r[1] < r[2] }

RECURSIVE SeqsUpTo(_, _)
SeqsUpTo(S, n) ==
    IF n = 0 THEN { <<>> }
    ELSE SeqsUpTo(S, n - 1)
         \cup { Append(q, x) : q \in { p \in SeqsUpTo(S, n - 1) : Len(p) = n - 1 }, x \in S }

GritRows ==
    { [url |-> <<"u.jpg">>, caption |-> Caption, ref_exps |-> r] :
        r \in SeqsUpTo(RefExps, MaxRefs) }

OrpoTurns == { Message(r, c) : r \in {"user", "assistant"}, c \in {"x", "y"} }

OrpoRows ==
    { [chosen |-> c, rejected |-> r] :
        c \in SeqsUpTo(OrpoTurns, MaxTurns), r \in SeqsUpTo(OrpoTurns, MaxTurns) }

SA1BPrompts == { "p1", "p2", "p3", "p4" }

DureaderRows ==
    { [text1 |-> t, text2 |-> "q"] : t \in { <<"a">>, <<"a", "c">>, <<"a", "c", "d">> } }

TigerBotLawRows ==
    { [type |-> "law", title |-> "t", chapters |-> <<c1, c2, NoneStr>>, content |-> "text"] :
        c1 \in {NoneStr, "c1"}, c2 \in {NoneStr, "c2"} }

InitRows ==
    /\ heap = <<>>
    /\ TEMPLATE_MAPPING = <<>>
    /\ call = NoCall

Grit ==
    /\ call = NoCall
    /\ \E row \in GritRows :
        Preprocess("GritPreprocessor", row, GritPreprocessor_preprocess(row))

Orpo ==
    /\ call = NoCall
    /\ \E row \in OrpoRows :
        Preprocess("OrpoDPOMix40kPreprocessor", row,
                   OrpoDPOMix40kPreprocessor_preprocess(row))

SA1BPairedCaption ==
    /\ call = NoCall
    /\ \E query \in SA1BPrompts :
        Preprocess("SA1BPairedCaptionPreprocessor", [global_caption |-> "a cat"],
                   SA1BPairedCaptionPreprocessor_preprocess([global_caption |-> "a cat"],
                                                            query))

Dureader ==
    /\ call = NoCall
    /\ \E row \in DureaderRows :
        Preprocess("DureaderPreprocessor", row, DureaderPreprocessor_preprocess(row))

TigerBotLaw ==
    /\ call = NoCall
    /\ \E row \in TigerBotLawRows :
        Preprocess("TigerBotLawPreprocessor", row, TigerBotLawPreprocessor_preprocess(row))

NextRows == Grit \/ Orpo \/ SA1BPairedCaption \/ Dureader \/ TigerBotLaw

SpecRows == InitRows /\ [][NextRows]_vars

----------------------------------------------------------------------------
(* SequencePacker: ConstantLengthDataset.get_packed_dataset, of            *)
(* dataset/utils.py.  An encoded example is the sequence of its tokens; a  *)
(* token <<i, p>> is the p-th token of the i-th example of the stream.     *)

\* an example longer than block_length keeps its last block_length tokens
truncation_left(example, block_length) ==
    IF Len(example) <= block_length THEN example
    ELSE SubSeq(example, Len(example) - block_length + 1, Len(example))

\* a block: its tokens and the offsets at which its examples start
PackedBlock(tokens, offsets) == [tokens |-> tokens, offsets |-> offsets]

\* a packer that takes an oversize example whole
pack_example_untruncated(p, example) ==
    IF Len(p.buffer) + Len(example) <= p.block_length
    THEN [p EXCEPT !.buffer = @ \o example, !.offsets = Append(@, Len(p.buffer))]
    ELSE [p EXCEPT !.blocks = IF p.buffer = <<>> THEN @
                              ELSE Append(@, PackedBlock(p.buffer, p.offsets)),
                   !.buffer = example, !.offsets = <<0>>]

\* one step of pack: the packer after the next example of the stream
pack_example(p, example) ==
    IF Len(example) > p.block_length
    THEN [p EXCEPT !.blocks =
                     (IF p.buffer = <<>> THEN @
                      ELSE Append(@, PackedBlock(p.buffer, p.offsets)))
                     \o << PackedBlock(truncation_left(example, p.block_length), <<0>>) >>,
                   !.buffer = <<>>, !.offsets = <<>>]
    ELSE IF Len(p.buffer) + Len(example) <= p.block_length
    THEN [p EXCEPT !.buffer = @ \o example, !.offsets = Append(@, Len(p.buffer))]
    ELSE [p EXCEPT !.blocks = IF p.buffer = <<>> THEN @
                              ELSE Append(@, PackedBlock(p.buffer, p.offsets)),
                   !.buffer = example, !.offsets = <<0>>]

\* the end of the stream: what is left in the buffer is the last block
pack_flush(p) ==
    [p EXCEPT !.blocks = IF p.buffer = <<>> THEN @
                         ELSE Append(@, PackedBlock(p.buffer, p.offsets)),
              !.buffer = <<>>, !.offsets = <<>>, !.done = TRUE]

\* pack(examples, block_length) before its first step
NewPacker(examples, block_length) ==
    /\ heap' = Append(heap, [ examples |-> examples, block_length |-> block_length,
                              next |-> 1, buffer |-> <<>>, offsets |-> <<>>,
                              blocks |-> <<>>, done |-> FALSE ])
    /\ call' = [NoCall EXCEPT !.op = "get_packed_dataset", !.ret = Len(heap) + 1,
                              !.max_length = block_length]
    /\ UNCHANGED TEMPLATE_MAPPING

PackExample(o) ==
    /\ o \in 1..Len(heap)
    /\ ~heap[o].done
    /\ heap[o].next <= Len(heap[o].examples)
    /\ heap' = [heap EXCEPT ![o] =
                   [pack_example(@, heap[o].examples[heap[o].next])
                      EXCEPT !.next = heap[o].next + 1]]
    /\ call' = [NoCall EXCEPT !.op = "pack_example", !.obj = o]
    /\ UNCHANGED TEMPLATE_MAPPING

PackFlush(o) ==
    /\ o \in 1..Len(heap)
    /\ ~heap[o].done
    /\ heap[o].next > Len(heap[o].examples)
    /\ heap' = [heap EXCEPT ![o] = pack_flush(@)]
    /\ call' = [NoCall EXCEPT !.op = "pack_flush", !.obj = o]
    /\ UNCHANGED TEMPLATE_MAPPING

----------------------------------------------------------------------------
(* Packing study: one stream is packed with the block length the training  *)
(* pipeline passes.                                                         *)

\* how many examples a stream may hold
MaxExamples == 3

\* the lengths an example may have
ExampleLengths == { 1, 2, 4, 6 }

\* the streams: the i-th example is made of its own tokens
Streams ==
    { [i \in 1..Len(lengths) |-> [p \in 1..lengths[i] |-> <<i, p>>]] :
        lengths \in SeqsUpTo(ExampleLengths, MaxExamples) }

\* the runs that pack: packing set, lazy_tokenize not
PackingArgs == { args \in SftArgs : args.packing /\ ~args.lazy_tokenize }

InitPack ==
    /\ heap = <<>>
    /\ TEMPLATE_MAPPING = <<>>
    /\ call = NoCall

\* _encode_dataset hands args.max_length to get_packed_dataset
NewPack ==
    /\ heap = <<>>
    /\ \E args \in PackingArgs, examples \in Streams :
           NewPacker(examples,
                     _encode_dataset(args, load_dataset(args.dataset, 0)[1],
                                     NoDataset)[1].max_length)

PackExamplePack == \E o \in 1..Len(heap) : PackExample(o)

PackFlushPack == \E o \in 1..Len(heap) : PackFlush(o)

NextPack == NewPack \/ PackExamplePack \/ PackFlushPack

SpecPack == InitPack /\ [][NextPack]_vars

----------------------------------------------------------------------------
(* LazyEncodingSource: LazyLLMDataset, of dataset/utils.py.  The raw       *)
(* provider is a sequence of flags, TRUE where encode succeeds on the item. *)

\* what happens after an error when strict is false: the position is
\* resampled from the next positions, or is simply absent
Policies == { "next", "absent" }

\* the first position after i on whose item encode succeeds, 0 if none
NextGood(raw, i) ==
    LET G == { j \in (i + 1)..Len(raw) : raw[j] }
    IN  IF G = {} THEN 0 ELSE CHOOSE j \in G : \A k \in G : j <= k

\* a get that lets every error through
lazy_get_always_raises(source, i) ==
    IF source.raw[i]
    THEN [ source |-> source, raised |-> "ok", got |-> i ]
    ELSE [ source |-> [source EXCEPT !.aborted = TRUE], raised |-> "EncodeError", got |-> 0 ]

\* get(i): the source after it, what it raised and the position whose
\* encoded example it returned (0: none)
lazy_get(source, i) ==
    IF source.raw[i]
    THEN [ source |-> source, raised |-> "ok", got |-> i ]
    ELSE IF source.dataset.strict
    THEN [ source |-> [source EXCEPT !.aborted = TRUE], raised |-> "EncodeError", got |-> 0 ]
    ELSE LET j == IF source.policy = "next" THEN NextGood(source.raw, i) ELSE 0
             tried == IF source.policy = "next"
                      THEN { k \in i..Len(source.raw) : ~source.raw[k] /\ (j = 0 \/ k < j) }
                      ELSE { i }
         IN  [ source |-> [source EXCEPT !.errors = @ \cup tried],
               raised |-> "ok", got |-> j ]

\* the lazy source the pipeline builds for one of its two datasets
NewLazySource(args, dataset, raw, policy) ==
    /\ heap' = Append(heap, [ dataset |-> dataset, args_strict |-> args.strict,
                              args_data_seed |-> args.data_seed, raw |-> raw,
                              policy |-> policy, errors |-> {}, aborted |-> FALSE ])
    /\ call' = [NoCall EXCEPT !.op = "LazyLLMDataset", !.ret = Len(heap) + 1]
    /\ UNCHANGED TEMPLATE_MAPPING

\* source.get(i); after an error has propagated the caller has stopped
LazyGet(o, i) ==
    /\ o \in 1..Len(heap)
    /\ ~heap[o].aborted
    /\ i \in 1..Len(heap[o].raw)
    /\ LET r == lazy_get(heap[o], i)
       IN  /\ heap' = [heap EXCEPT ![o] = r.source]
           /\ call' = [NoCall EXCEPT !.op = "get", !.obj = o, !.raised = r.raised,
                                     !.result = <<[index |-> i, got |-> r.got]>>]
    /\ UNCHANGED TEMPLATE_MAPPING

----------------------------------------------------------------------------
(* Lazy study: the training or the validation set of a run that tokenizes  *)
(* lazily is read position by position.                                    *)

\* how many items the raw provider may hold
MaxItems == 3

RawProviders == { raw \in SeqsUpTo(BOOLEAN, MaxItems) : raw # <<>> }

\* the runs that tokenize lazily
LazyArgs == { args \in SftArgs : args.lazy_tokenize /\ ~args.packing /\ args.max_length = 5 }

InitLazy ==
    /\ heap = <<>>
    /\ TEMPLATE_MAPPING = <<>>
    /\ call = NoCall

\* run: _get_dataset, then _encode_dataset; either of the two sets it
\* returns, unless None
NewLazy ==
    /\ heap = <<>>
    /\ \E args \in LazyArgs, part \in {1, 2}, raw \in RawProviders, policy \in Policies :
           LET loaded == _get_dataset(args)
               encoded == _encode_dataset(loaded.args, loaded.train_dataset,
                                          loaded.val_dataset)
           IN  /\ encoded[part] # NoDataset
               /\ NewLazySource(args, encoded[part], raw, policy)

GetLazy == \E o \in 1..Len(heap), i \in 1..MaxItems : LazyGet(o, i)

NextLazy == NewLazy \/ GetLazy

SpecLazy == InitLazy /\ [][NextLazy]_vars

----------------------------------------------------------------------------
(* The registry *)

\* the entry register_template stores: {'template_meta': template_meta, **kwargs}.
\* The only keyword get_template reads is 'template'; NoObj: not passed.
TemplateInfo(template_meta, template) ==
    [template_meta |-> template_meta, template |-> template]

\* register_template: the exception it raises, "ok" if none
register_template_raises(mapping, template_type, exist_ok) ==
    IF ~exist_ok /\ template_type \in DOMAIN mapping THEN "ValueError" ELSE "ok"

\* register_template storing the entry before it looks at exist_ok
register_template_store_first(mapping, template_type, template_info, exist_ok) ==
    (template_type :> template_info) @@ mapping

\* register_template keeping an entry that exists, whatever exist_ok says
register_template_setdefault(mapping, template_type, template_info, exist_ok) ==
    IF template_type \in DOMAIN mapping
    THEN mapping
    ELSE (template_type :> template_info) @@ mapping

\* register_template: TEMPLATE_MAPPING as the call leaves it
register_template(mapping, template_type, template_info, exist_ok) ==
    IF register_template_raises(mapping, template_type, exist_ok) # "ok"
    THEN mapping
    ELSE (template_type :> template_info) @@ mapping

\* Template._init_template, of template/base.py: it binds the tokenizer,
\* takes over the default system when one is passed, the length budget and
\* the truncation strategy, and resolves the grammar's tokens.
_init_template_raises(o, tokenizer, default_system) ==
    IF default_system # NoneStr
       /\ check_system_raises(o.support_system, default_system) # "ok"
    THEN "AssertionError"
    ELSE token_attr_to_id_raises(o, tokenizer)

_init_template(o, tokenizer, default_system, max_length, truncation_strategy) ==
    token_attr_to_id(
        [o EXCEPT !.tokenizer = tokenizer,
                  !.default_system = IF default_system = NoneStr THEN @
                                     ELSE check_system(o.support_system, default_system),
                  !.max_length = max_length,
                  !.truncation_strategy = truncation_strategy],
        tokenizer)

\* get_template: the exception it raises, "ok" if none
get_template_raises(mapping, h, template_type, tokenizer, default_system) ==
    IF template_type \notin DOMAIN mapping THEN "KeyError"
    ELSE IF mapping[template_type].template = NoObj THEN "KeyError"
    ELSE _init_template_raises(h[mapping[template_type].template], tokenizer, default_system)

\* get_template without the deepcopy: the registered object itself is
\* initialised and returned
get_template_shared(mapping, h, template_type, tokenizer, default_system, max_length, truncation_strategy) ==
    [ heap |-> [h EXCEPT ![mapping[template_type].template] =
                    _init_template(h[mapping[template_type].template], tokenizer,
                                   default_system, max_length, truncation_strategy)],
      ret  |-> mapping[template_type].template ]

\* get_template initialising the registered object and copying it afterwards
get_template_init_first(mapping, h, template_type, tokenizer, default_system, max_length, truncation_strategy) ==
    [ heap |-> Append([h EXCEPT ![mapping[template_type].template] =
                          _init_template(h[mapping[template_type].template], tokenizer,
                                         default_system, max_length, truncation_strategy)],
                      _init_template(deepcopy(h[mapping[template_type].template], Len(h) + 1),
                                     tokenizer, default_system, max_length,
                                     truncation_strategy)),
      ret  |-> Len(h) + 1 ]

\* get_template when it raises nothing: the heap as it leaves it and the
\* object it returns.  deepcopy makes a new object, which is the one that
\* is initialised and returned.
get_template(mapping, h, template_type, tokenizer, default_system, max_length, truncation_strategy) ==
    [ heap |-> Append(h, _init_template(deepcopy(h[mapping[template_type].template],
                                                 Len(h) + 1),
                                        tokenizer, default_system, max_length,
                                        truncation_strategy)),
      ret  |-> Len(h) + 1 ]

\* register_template(heap[template_meta], exist_ok=exist_ok[, template=heap[template]])
RegisterTemplate(template_meta, exist_ok, template) ==
    LET template_type == heap[template_meta].template_type
    IN  /\ TEMPLATE_MAPPING' = register_template(TEMPLATE_MAPPING, template_type,
                                    TemplateInfo(template_meta, template), exist_ok)
        /\ call' = [NoCall EXCEPT !.op = "register_template", !.obj = template_meta,
                                  !.template_type = template_type,
                                  !.exist_ok = exist_ok, !.template = template,
                                  !.raised = register_template_raises(
                                                 TEMPLATE_MAPPING, template_type, exist_ok)]
        /\ UNCHANGED heap

\* get_template(template_type, tokenizer, default_system, max_length,
\*              truncation_strategy=truncation_strategy)
GetTemplate(template_type, tokenizer, default_system, max_length, truncation_strategy) ==
    LET raised == get_template_raises(TEMPLATE_MAPPING, heap, template_type, tokenizer,
                                      default_system)
        got == get_template(TEMPLATE_MAPPING, heap, template_type, tokenizer,
                            default_system, max_length, truncation_strategy)
    IN  /\ heap' = IF raised = "ok" THEN got.heap ELSE heap
        /\ call' = [NoCall EXCEPT !.op = "get_template", !.template_type = template_type,
                                  !.tokenizer = tokenizer,
                                  !.args = [NoArgs EXCEPT !.default_system = default_system],
                                  !.raised = raised,
                                  !.ret = IF raised = "ok" THEN got.ret ELSE NoObj]
        /\ UNCHANGED TEMPLATE_MAPPING

----------------------------------------------------------------------------
(* Registry study: grammars are built, registered and looked up; a lookup *)
(* resolves the tokens of the object it returns.                          *)

\* how many objects the heap may hold
MaxObjs == 3

TemplateTypes == {"chatml", "default"}

RegArgs ==
    { [NoArgs EXCEPT !.template_type = "chatml",
                     !.prefix = <<Lst(<<Attr("bos_token_id")>>)>>,
                     !.prompt = <<Str(<<Txt("<user>"), Txt(QUERY)>>)>>,
                     !.chat_sep = <<Lst(<<Attr("eos_token_id")>>)>>,
                     !.suffix = <<Lst(<<Attr("eos_token_id")>>)>>,
                     !.system_prefix = <<Str(<<Txt("<sys>"), Txt(SYSTEM)>>)>>],
      [NoArgs EXCEPT !.template_type = "default",
                     !.prompt = <<Str(<<Txt(QUERY)>>)>>,
                     !.suffix = <<Lst(<<Attr("eot_token_id")>>)>>] }

\* what a lookup passes: default_system, max_length (0: None), truncation_strategy
LookupArgs == { <<NoneStr, 0, "delete">>, <<"sys", 8, "truncation_left">> }

Init ==
    /\ heap = <<>>
    /\ TEMPLATE_MAPPING = <<>>
    /\ call = NoCall

Build ==
    /\ Len(heap) < MaxObjs
    /\ \E a \in RegArgs : NewTemplateMeta(a)

\* a registration passes no template= keyword, or passes the grammar object
Register ==
    \E template_meta \in 1..Len(heap), exist_ok \in BOOLEAN :
        \E template \in {NoObj, template_meta} :
            RegisterTemplate(template_meta, exist_ok, template)

Lookup ==
    /\ Len(heap) < MaxObjs
    /\ \E template_type \in TemplateTypes, tokenizer \in Tokenizers, la \in LookupArgs :
        GetTemplate(template_type, tokenizer, la[1], la[2], la[3])

Next == Build \/ Register \/ Lookup

Spec == Init /\ [][Next]_vars

----------------------------------------------------------------------------
(* Construction: where the system placeholder may be declared *)

\* C1: constructing a TemplateMeta whose fields declare {{SYSTEM}} in two
\* places (prefix and prompt both embed it, or system_prefix is set while
\* prompt embeds it) fails, and no object is produced.
C1_DoubleDeclarationFails ==
    (/\ call.op = "TemplateMeta"
     /\ _has_system(call.args.prompt)
     /\ \/ _has_system(call.args.prefix)
        \/ call.args.system_prefix # None)
    => (call.raised # "ok" /\ call.ret = NoObj)

\* the supplied prefix with the placeholder text taken out of its str segments
WithoutPlaceholder(prefix) ==
    [i \in 1..Len(prefix) |->
        IF prefix[i].k = "str"
        THEN Str(SelectSeq(prefix[i].v, LAMBDA x : x # Txt(SYSTEM)))
        ELSE prefix[i]]

\* C2: when prefix embeds {{SYSTEM}}, construction fails if system_prefix is
\* set; otherwise it succeeds, system_prefix is the prefix as supplied and
\* prefix is the supplied prefix with the placeholder text removed.
C2_PrefixPlaceholderSplit ==
    (call.op = "TemplateMeta" /\ _has_system(call.args.prefix))
    => IF call.args.system_prefix # None
       THEN call.raised # "ok"
       ELSE /\ call.raised = "ok"
            /\ call.ret \in 1..Len(heap)
            /\ heap[call.ret].system_prefix = call.args.prefix
            /\ heap[call.ret].prefix = WithoutPlaceholder(call.args.prefix)

----------------------------------------------------------------------------
(* Token resolution *)

SegmentFields ==
    {"prefix", "prompt", "chat_sep", "suffix", "system_prefix", "tool_prompt"}

\* the last call resolved an object and raised nothing
Resolved == call.op = "token_attr_to_id" /\ call.raised = "ok"

\* C3: after token resolution no segment of prefix, prompt, chat_sep, suffix,
\* system_prefix or tool_prompt still holds a symbolic token name.
C3_NoSymbolicNameLeft ==
    Resolved => \A f \in SegmentFields : ~HasSymbolic(heap[call.obj][f])

\* C4: resolving again a grammar that was just resolved against the same
\* tokenizer raises nothing and leaves prefix, prompt, chat_sep, suffix and
\* system_prefix as the first resolution left them.
C4_ResolveIdempotent ==
    [][(/\ Resolved
        /\ call'.op = "token_attr_to_id"
        /\ call'.obj = call.obj
        /\ call'.tokenizer = call.tokenizer)
       => (/\ call'.raised = "ok"
           /\ \A i \in 1..Len(ResolvedKeys) :
                 heap'[call.obj][ResolvedKeys[i]] = heap[call.obj][ResolvedKeys[i]])]_vars

\* a resolved grammar on which a further resolution is a real case: names
\* were replaced by ids in one of its list segments
C4_Witness ==
    /\ Resolved
    /\ call.tokenizer = "tokA"
    /\ heap[call.obj].chat_sep = <<Lst(<<Id(2), Id(7)>>), Str(<<Txt("<sep>")>>)>>
    /\ heap[call.obj].prompt[Len(heap[call.obj].prompt)] = Lst(<<Id(4)>>)

\* C5: a resolution that completes leaves only integers in the list segments
\* of the resolved fields; a name the tokenizer holds no id for makes it fail.
C5_UnresolvedNameFails ==
    Resolved => \A i \in 1..Len(ResolvedKeys) : ~HasNonInt(heap[call.obj][ResolvedKeys[i]])

\* the ids tokenizer tok binds symbolic names to
IdsOf(tok) ==
    {GetAttr(tok, name) : name \in {n \in {"bos_token_id", "eos_token_id",
                                           "pad_token_id", "eot_token_id"} : HasAttr(tok, n)}}

\* the field holds an id that only another tokenizer binds
HasForeignId(value, tok) ==
    \E i \in 1..Len(value) :
        /\ value[i].k = "list"
        /\ \E j \in 1..Len(value[i].v), other \in Tokenizers \ {tok} :
              value[i].v[j] \in IdsOf(other) \ IdsOf(tok)

\* C6: a grammar resolved for a tokenizer carries that tokenizer's ids, never
\* the ids bound earlier from another tokenizer.
C6_IdsOfTheTokenizerUsed ==
    Resolved => \A i \in 1..Len(ResolvedKeys) :
                    ~HasForeignId(heap[call.obj][ResolvedKeys[i]], call.tokenizer)

----------------------------------------------------------------------------
(* The registry: registration *)

Registering == call'.op = "register_template"

\* C7: register_template fails when the template_type is already registered
\* and exist_ok is not passed, and the failed call leaves TEMPLATE_MAPPING
\* exactly as it was.
C7_DuplicateRegistrationFails ==
    [][(/\ Registering
        /\ ~call'.exist_ok
        /\ call'.template_type \in DOMAIN TEMPLATE_MAPPING)
       => (/\ call'.raised = "ValueError"
           /\ TEMPLATE_MAPPING' = TEMPLATE_MAPPING)]_vars

\* a refused registration: the entry stored is still the earlier one
C7_Witness ==
    /\ call.op = "register_template"
    /\ call.raised = "ValueError"
    /\ call.template_type \in DOMAIN TEMPLATE_MAPPING
    /\ TEMPLATE_MAPPING[call.template_type].template_meta # call.obj

\* C8: a registration stores its grammar under its template_type exactly when
\* the type is new or exist_ok is passed, keeps the earlier entry otherwise,
\* and never adds, removes or changes the entry of another template_type; no
\* other call changes the registry.
C8_LatestSuccessfulRegistration ==
    [][IF Registering
       THEN LET t == call'.template_type
            IN  /\ \A u \in TemplateTypes \ {t} :
                      /\ u \in DOMAIN TEMPLATE_MAPPING' <=> u \in DOMAIN TEMPLATE_MAPPING
                      /\ u \in DOMAIN TEMPLATE_MAPPING
                            => TEMPLATE_MAPPING'[u] = TEMPLATE_MAPPING[u]
                /\ t \in DOMAIN TEMPLATE_MAPPING'
                /\ IF call'.exist_ok \/ t \notin DOMAIN TEMPLATE_MAPPING
                   THEN TEMPLATE_MAPPING'[t] = TemplateInfo(call'.obj, call'.template)
                   ELSE TEMPLATE_MAPPING'[t] = TEMPLATE_MAPPING[t]
       ELSE TEMPLATE_MAPPING' = TEMPLATE_MAPPING]_vars

\* an overriding registration, made while another template_type is registered
C8_Witness ==
    /\ call.op = "register_template"
    /\ call.exist_ok
    /\ call.raised = "ok"
    /\ DOMAIN TEMPLATE_MAPPING = TemplateTypes
    /\ TEMPLATE_MAPPING[call.template_type].template_meta = call.obj
    /\ \E o \in 1..Len(heap) :
          o < call.obj /\ heap[o].template_type = call.template_type

----------------------------------------------------------------------------
(* The registry: lookup *)

LookedUp == call'.op = "get_template" /\ call'.raised = "ok"

\* the object a lookup of template_type copies
Registered(template_type) == TEMPLATE_MAPPING[template_type].template

C10_LookupsIndependent ==
    [][call'.op = "get_template" =>
          /\ \A o \in 1..Len(heap) : o \in 1..Len(heap') /\ heap'[o] = heap[o]
          /\ TEMPLATE_MAPPING' = TEMPLATE_MAPPING
          /\ call'.raised = "ok" =>
                /\ call'.ret \notin 1..Len(heap)
                /\ \A t \in DOMAIN TEMPLATE_MAPPING :
                      /\ TEMPLATE_MAPPING[t].template # call'.ret
                      /\ TEMPLATE_MAPPING[t].template_meta # call'.ret]_vars

\* two templates obtained for one template_type with different tokenizers and
\* settings, each with its own ids, and the registered object still untouched
C10_Witness ==
    /\ call.op = "get_template"
    /\ call.raised = "ok"
    /\ \E o \in 1..Len(heap) :
          /\ o # call.ret
          /\ heap[o].template_type = call.template_type
          /\ heap[o].tokenizer \in Tokenizers \ {call.tokenizer}
          /\ heap[o].suffix # heap[call.ret].suffix
          /\ heap[o].max_length # heap[call.ret].max_length
    /\ heap[TEMPLATE_MAPPING[call.template_type].template].tokenizer = NoTokenizer

----------------------------------------------------------------------------
(* The generation variant *)

Derived == call.op = "to_generation_template_meta"

\* C11: to_generation_template_meta never fails and returns a new object
\* whose prefix is empty, whose prompt is the single query placeholder and
\* whose suffix is the single end-of-sequence marker; the variant has no chat
\* separator, no system prefix, supports neither multi-round nor a system
\* message, whatever the source supported.
C11_GenerationVariantShape ==
    Derived =>
        /\ call.raised = "ok"
        /\ call.ret = Len(heap)
        /\ call.ret # call.obj
        /\ LET v == heap[call.ret]
           IN  /\ v.prefix = <<>>
               /\ v.prompt = <<Str(<<Txt(QUERY)>>)>>
               /\ v.suffix = <<Lst(<<Attr("eos_token_id")>>)>>
               /\ v.chat_sep = None
               /\ v.system_prefix = None
               /\ ~v.is_post_system
               /\ ~v.support_multi_round
               /\ ~v.support_system

\* a variant derived from a source that supports multi-round and a system
C11_Witness ==
    /\ Derived
    /\ call.raised = "ok"
    /\ heap[call.obj].support_multi_round
    /\ heap[call.obj].support_system

\* C12 as stated: every flag other than prefix, prompt and suffix of the
\* variant equals the source's.
C12_AllFlagsPreserved ==
    (Derived /\ call.raised = "ok") =>
        LET v == heap[call.ret]
            o == heap[call.obj]
        IN  /\ v.template_type = o.template_type
            /\ v.template_cls = o.template_cls
            /\ v.auto_add_bos = o.auto_add_bos
            /\ v.default_system = o.default_system
            /\ v.stop_words.v = o.stop_words.v
            /\ v.placeholder_tokens.v = o.placeholder_tokens.v
            /\ v.skip_prompt = o.skip_prompt
            /\ v.default_tools_prompt = o.default_tools_prompt
            /\ v.support_stream = o.support_stream

\* C12 amended: the variant keeps the source's template_type, template_cls,
\* stop_words, placeholder_tokens, skip_prompt and support_stream by value; its
\* auto_add_bos is true, its default_system is the empty string and its
\* default_tools_prompt is the default 'react_en', whatever the source's were.
C12_FlagsOfTheVariant ==
    (Derived /\ call.raised = "ok") =>
        LET v == heap[call.ret]
            o == heap[call.obj]
        IN  /\ v.template_type = o.template_type
            /\ v.template_cls = o.template_cls
            /\ v.stop_words.v = o.stop_words.v
            /\ v.placeholder_tokens.v = o.placeholder_tokens.v
            /\ v.skip_prompt = o.skip_prompt
            /\ v.support_stream = o.support_stream
            /\ v.auto_add_bos = TRUE
            /\ v.default_system = ""
            /\ v.default_tools_prompt = "react_en"

\* a variant derived from a source none of whose flags has its default
C12_Witness ==
    /\ Derived
    /\ call.raised = "ok"
    /\ heap[call.obj].default_system = "sys"
    /\ heap[call.obj].default_tools_prompt = "toolbench"
    /\ ~heap[call.obj].skip_prompt
    /\ heap[call.obj].stop_words.v # <<>>

\* C13: deriving the variant changes no field of the source, and once the
\* variant exists, appending to or popping from the stop_words or
\* placeholder_tokens of one of the two objects, or resolving its tokens,
\* changes no field of the other.
C13_VariantSharesNothing ==
    [][ /\ call'.op = "to_generation_template_meta" =>
            \A p \in 1..Len(heap) : heap'[p] = heap[p]
        /\ call'.op \in {"append", "pop", "token_attr_to_id"} =>
            \A p \in (1..Len(heap)) \ {call'.obj} : heap'[p] = heap[p] ]_vars

\* the variant's and the source's lists have been changed apart, and the
\* variant is resolved while the source is not
C13_Witness ==
    /\ Len(heap) = 2
    /\ call.op \in {"append", "pop"}
    /\ heap[2].stop_words.v # heap[1].stop_words.v
    /\ heap[2].placeholder_tokens.v # heap[1].placeholder_tokens.v
    /\ ~HasSymbolic(heap[2].suffix)
    /\ HasSymbolic(heap[1].suffix)

----------------------------------------------------------------------------
(* Derived fields of a TemplateMeta *)

\* the last call built an object
Constructed == call.op = "TemplateMeta" /\ call.raised = "ok"

\* C14: a TemplateMeta that was constructed supports a system message if and
\* only if it has a system prefix after construction (the system_prefix
\* passed, or the prefix passed when that embeds the placeholder) or the
\* prompt passed holds the system placeholder.
C14_SupportSystemFromFields ==
    Constructed =>
        LET o == heap[call.ret]
        IN  /\ o.support_system <=>
                  (o.system_prefix # None \/ _has_system(call.args.prompt))
            /\ o.system_prefix # None <=>
                  (call.args.system_prefix # None \/ _has_system(call.args.prefix))
            /\ o.is_post_system <=> _has_system(call.args.prompt)

\* a grammar whose only system support is the placeholder in its prompt
C14_Witness ==
    /\ Constructed
    /\ heap[call.ret].support_system
    /\ heap[call.ret].system_prefix = None
    /\ _has_system(call.args.prompt)

\* C15: after the construction of a post-system grammar the per-round
\* prompt holds no system placeholder while system_prompt, the prompt kept
\* for the first round, still holds it.
C15_SystemPromptKeepsPlaceholder ==
    (Constructed /\ _has_system(call.args.prompt)) =>
        /\ ~_has_system(heap[call.ret].prompt)
        /\ _has_system(heap[call.ret].system_prompt)

\* C17: construction with a non-empty default_system fails when the fields
\* give no system support, so no object holds a non-empty default_system
\* without supporting a system; check_system raises exactly for a non-empty
\* system on an object that does not support one, changes no object, returns
\* '' for None and returns any other accepted system as it was passed.
C17_SystemNeedsSupport ==
    [][ /\ \A p \in 1..Len(heap') :
              heap'[p].default_system \notin {NoneStr, ""} => heap'[p].support_system
        /\ (/\ call'.op = "TemplateMeta"
            /\ call'.args.default_system \notin {NoneStr, ""}
            /\ call'.args.system_prefix = None
            /\ ~_has_system(call'.args.prefix)
            /\ ~_has_system(call'.args.prompt)) =>
              /\ call'.raised = "AssertionError"
              /\ call'.ret = NoObj
              /\ heap' = heap
        /\ (call'.op = "TemplateMeta" /\ call'.raised = "ok") =>
              heap'[call'.ret].default_system =
                  IF call'.args.default_system = NoneStr THEN ""
                  ELSE call'.args.default_system
        /\ call'.op = "check_system" =>
              /\ heap' = heap
              /\ call'.raised = "AssertionError" <=>
                    /\ call'.value \notin {NoneStr, ""}
                    /\ ~heap[call'.obj].support_system
              /\ call'.raised # "AssertionError" =>
                    /\ call'.raised = "ok"
                    /\ call'.returned =
                          IF call'.value = NoneStr THEN "" ELSE call'.value ]_vars

\* check_system has refused a system on a grammar without system support
C17_Witness ==
    /\ call.op = "check_system"
    /\ call.raised = "AssertionError"
    /\ call.value = "sys"
    /\ ~heap[call.obj].support_system

\* the fields token_attr_to_id sets
ResolvedFields == { ResolvedKeys[i] : i \in 1..Len(ResolvedKeys) }

\* value `new` is value `old` with nothing but symbolic names replaced
OnlyNamesReplaced(old, new) ==
    IF old = None THEN new = None
    ELSE /\ new # None
         /\ Len(new) = Len(old)
         /\ \A i \in 1..Len(old) :
               /\ new[i].k = old[i].k
               /\ old[i].k = "str" => new[i] = old[i]
               /\ old[i].k = "list" =>
                     /\ Len(new[i].v) = Len(old[i].v)
                     /\ \A j \in 1..Len(old[i].v) :
                           old[i].v[j].t # "attr" => new[i].v[j] = old[i].v[j]

\* C18: token_attr_to_id, whether it raises or not, leaves every str segment
\* and every element of a list segment that is not a name as it was, keeps
\* None fields None, keeps the number and order of the segments and of their
\* elements, and changes no field other than prefix, prompt, chat_sep, suffix
\* and system_prefix; no other object changes.
C18_ResolutionPassesThrough ==
    [][ call'.op = "token_attr_to_id" =>
          /\ Len(heap') = Len(heap)
          /\ \A p \in (1..Len(heap)) \ {call'.obj} : heap'[p] = heap[p]
          /\ \A f \in DOMAIN heap[call'.obj] :
                IF f \in ResolvedFields
                THEN OnlyNamesReplaced(heap[call'.obj][f], heap'[call'.obj][f])
                ELSE heap'[call'.obj][f] = heap[call'.obj][f] ]_vars

\* a resolved grammar with an empty prefix, no system prefix, a literal
\* separator segment and an integer that was passed as an integer
C18_Witness ==
    /\ Resolved
    /\ heap[call.obj].prefix = <<>>
    /\ heap[call.obj].system_prefix = None
    /\ heap[call.obj].chat_sep # None
    /\ \E i \in 1..Len(heap[call.obj].chat_sep) :
          heap[call.obj].chat_sep[i] = Str(<<Txt("<sep>")>>)
    /\ \E i \in 1..Len(heap[call.obj].chat_sep) :
          /\ heap[call.obj].chat_sep[i].k = "list"
          /\ \E j \in 1..Len(heap[call.obj].chat_sep[i].v) :
                heap[call.obj].chat_sep[i].v[j] = Id(7)

\* C19: a TemplateMeta constructed without tool_prompt has its tool_prompt
\* equal to its prompt after construction, which for a post-system grammar
\* is the prompt passed without its system segments; one constructed with a
\* tool_prompt keeps it as passed.
C19_ToolPromptDefault ==
    Constructed =>
        LET o == heap[call.ret]
        IN  IF call.args.tool_prompt = None
            THEN /\ o.tool_prompt = o.prompt
                 /\ o.tool_prompt = DropSystemSegments(call.args.prompt)
                 /\ ~_has_system(o.tool_prompt)
            ELSE o.tool_prompt = call.args.tool_prompt

\* a post-system grammar constructed without tool_prompt
C19_Witness ==
    /\ Constructed
    /\ call.args.tool_prompt = None
    /\ _has_system(call.args.prompt)
    /\ heap[call.ret].tool_prompt # call.args.prompt

----------------------------------------------------------------------------
(* The encoder *)

\* the last call encoded a conversation and produced an example
Encoded == call.op = "encode" /\ call.example.status = "ok"

\* C16: a TemplateMeta supports multi-round if and only if its chat_sep is
\* set; encoding a well-formed conversation of more than one round against
\* a grammar whose chat_sep is None raises UnsupportedFeatureError (drops
\* the example with that error when not strict) and yields no tokens; an
\* example of more than one round always comes from a grammar with a
\* chat_sep, and when it is not truncated it holds the separator once
\* between every two rounds.
C16_NoRoundsWithoutSeparator ==
    /\ \A p \in 1..Len(heap) :
          heap[p].support_multi_round <=> heap[p].chat_sep # None
    /\ call.op = "encode" =>
          LET g == heap[call.obj]
              e == call.example
              n == Rounds(call.conversation)
          IN  /\ (g.chat_sep = None /\ ValidConversation(call.conversation) /\ n > 1) =>
                    /\ e.status = IF call.strict THEN "raised" ELSE "dropped"
                    /\ e.error = "UnsupportedFeatureError"
                    /\ e.token_ids = <<>>
              /\ (e.status = "ok" /\ n > 1) =>
                    /\ g.chat_sep # None
                    /\ ~e.truncated =>
                          Len(SelectSeq(e.origin, LAMBDA x : x = "sep")) =
                              (n - 1) * Len(RenderSegments(g.chat_sep, <<>>, <<>>, "sep"))

\* a two-round conversation dropped by a grammar without chat_sep
C16_Witness ==
    /\ call.op = "encode"
    /\ heap[call.obj].chat_sep = None
    /\ ~heap[call.obj].support_multi_round
    /\ ValidConversation(call.conversation)
    /\ Rounds(call.conversation) = 2
    /\ call.example.status = "dropped"
    /\ call.example.error = "UnsupportedFeatureError"

\* how many tokens the assistant turns of a conversation hold, a
\* placeholder span counted as perImage tokens
ContentTokens(content, perImage) ==
    Len(Concat([j \in 1..Len(content) |->
            IF content[j].kind = "text" THEN Tokenize(content[j].s)
            ELSE [i \in 1..perImage |-> PlaceholderId]]))
AssistantTokens(conversation, perImage) ==
    Len(Concat([t \in 1..Len(conversation) |->
            IF conversation[t].role = "assistant"
            THEN [i \in 1..ContentTokens(conversation[t].content, perImage) |-> t]
            ELSE <<>>]))

NonMasked(labels) == Len(SelectSeq(labels, LAMBDA x : x # Mask))

C25_RegisteredCanBeObtained ==
    (/\ call.op = "get_template"
     /\ call.template_type \in DOMAIN TEMPLATE_MAPPING)
    => call.raised # "KeyError"

----------------------------------------------------------------------------
(* The training pipeline *)

\* C26: when a validation dataset is configured, the validation set
\* _get_dataset returns is the one loaded from val_dataset and the training
\* set is loaded from dataset with ratio 0; when none is configured, the
\* validation set is the part split off dataset with split_dataset_ratio.
C26_ValidationSetAsConfigured ==
    \A o \in 1..Len(heap) :
        heap[o].pc = "_encode_dataset" =>
            IF heap[o].args0.val_dataset # ""
            THEN /\ heap[o].val_dataset = load_dataset(heap[o].args0.val_dataset, 100)[2]
                 /\ heap[o].train_dataset = load_dataset(heap[o].args0.dataset, 0)[1]
            ELSE /\ heap[o].val_dataset =
                        load_dataset(heap[o].args0.dataset,
                                     heap[o].args0.split_dataset_ratio)[2]
                 /\ heap[o].train_dataset =
                        load_dataset(heap[o].args0.dataset,
                                     heap[o].args0.split_dataset_ratio)[1]

\* the mode _encode_dataset is to apply
ModeOf(args) ==
    IF args.lazy_tokenize THEN "lazy" ELSE IF args.packing THEN "packed" ELSE "eager"

\* dataset `new` is dataset `old` under the mode of args, with the
\* arguments that mode is given
EncodedAs(args, old, new) ==
    /\ new.mode = ModeOf(args)
    /\ new.from = old.from /\ new.ratio = old.ratio /\ new.part = old.part
    /\ new.mode = "lazy" => new.strict = args.strict /\ new.random_state = args.data_seed
    /\ new.mode = "packed" =>
          new.max_length = args.max_length /\ new.lazy_tokenize = args.lazy_tokenize

\* C24: _encode_dataset puts the training set under exactly one mode, lazy
\* if lazy_tokenize is set (also when packing is set), else packed if
\* packing is set, else eager; a validation set that is not None gets the
\* same mode with the same arguments and one that is None stays None.
C24_OneEncodingMode ==
    \A o \in 1..Len(heap) :
        heap[o].pc = "_get_data_collator" =>
            /\ EncodedAs(heap[o].args, heap[o].loaded_train, heap[o].train_dataset)
            /\ IF heap[o].loaded_val = NoDataset
               THEN heap[o].val_dataset = NoDataset
               ELSE EncodedAs(heap[o].args, heap[o].loaded_val, heap[o].val_dataset)

\* lazy_tokenize and packing both set, with a validation set
C24_Witness ==
    \E o \in 1..Len(heap) :
        /\ heap[o].pc = "_get_data_collator"
        /\ heap[o].args.lazy_tokenize /\ heap[o].args.packing
        /\ heap[o].train_dataset.mode = "lazy"
        /\ heap[o].val_dataset.mode = "lazy"

----------------------------------------------------------------------------
(* The metrics *)

\* C27: whatever updates and resets came before, state and count of a
\* MeanMetric are the sum and the number of the values passed to update
\* since the last reset, compute returns their mean, and 0 when there is
\* none; a reset leaves state = 0 and count = 0.
C27_MeanSinceLastReset ==
    /\ \A o \in 1..Len(heap) :
          /\ heap[o].state = Sum(heap[o].seen)
          /\ heap[o].count = Len(heap[o].seen)
    /\ call.op = "compute" =>
          IF heap[call.obj].seen = <<>>
          THEN call.result = <<0, 1>>
          ELSE call.result[1] * Len(heap[call.obj].seen)
                   = Sum(heap[call.obj].seen) * call.result[2]
    /\ call.op = "reset" =>
          heap[call.obj].state = 0 /\ heap[call.obj].count = 0

\* a mean computed over values given as a list and as a scalar
C27_Witness ==
    /\ call.op = "compute"
    /\ heap[call.obj].seen = <<1, 4, 4>>
    /\ call.result = <<9, 3>>

\* C28: the two tables of an InferStats have the same ids; an update sets
\* the entry of its id in both to the usage it brings, whatever was there,
\* and touches no other entry; compute returns the number of ids and the
\* sums of the entries; a reset binds both tables to new empty dicts and
\* changes none of the dicts made before; an update changes no dict but
\* the two the tables are bound to.
C28_LatestUsagePerId ==
    [][ /\ \A o \in 1..Len(heap') :
              /\ DOMAIN heap'[o].dicts[heap'[o].num_prompt_tokens]
                    = DOMAIN heap'[o].dicts[heap'[o].num_generated_tokens]
              /\ heap'[o].num_prompt_tokens # heap'[o].num_generated_tokens
        /\ (call'.op = "update" /\ Len(heap) > 0) =>
              LET o == heap[call'.obj]
                  n == heap'[call'.obj]
                  output == call'.result[1]
                  p == o.num_prompt_tokens
                  g == o.num_generated_tokens
              IN  /\ n.num_prompt_tokens = p /\ n.num_generated_tokens = g
                  /\ DOMAIN n.dicts[p] = DOMAIN o.dicts[p] \cup {output.id}
                  /\ DOMAIN n.dicts[g] = DOMAIN o.dicts[g] \cup {output.id}
                  /\ n.dicts[p][output.id] = output.prompt_tokens
                  /\ n.dicts[g][output.id] = output.completion_tokens
                  /\ \A k \in DOMAIN o.dicts[p] \ {output.id} :
                        n.dicts[p][k] = o.dicts[p][k] /\ n.dicts[g][k] = o.dicts[g][k]
                  /\ Len(n.dicts) = Len(o.dicts)
                  /\ \A i \in (1..Len(o.dicts)) \ {p, g} : n.dicts[i] = o.dicts[i]
        /\ call'.op = "compute" =>
              LET o == heap[call'.obj]
                  r == call'.result[1]
              IN  /\ heap' = heap
                  /\ r.num_samples = Cardinality(DOMAIN o.dicts[o.num_prompt_tokens])
                  /\ r.num_prompt_tokens = SumValues(o.dicts[o.num_prompt_tokens])
                  /\ r.num_generated_tokens = SumValues(o.dicts[o.num_generated_tokens])
        /\ call'.op = "reset" =>
              LET o == heap[call'.obj]
                  n == heap'[call'.obj]
              IN  /\ n.dicts[n.num_prompt_tokens] = EmptyDict
                  /\ n.dicts[n.num_generated_tokens] = EmptyDict
                  /\ n.num_prompt_tokens \notin 1..Len(o.dicts)
                  /\ n.num_generated_tokens \notin 1..Len(o.dicts)
                  /\ \A i \in 1..Len(o.dicts) : n.dicts[i] = o.dicts[i] ]_vars

\* statistics computed after a reset and after two updates for one id: the
\* later usage is the one counted, and the dicts from before the reset
\* still hold what they held
C28_Witness ==
    /\ call.op = "compute"
    /\ heap[call.obj].start_runtime = 1
    /\ heap[call.obj].dicts[1] # EmptyDict
    /\ call.result[1].num_samples = 2
    /\ call.result[1].num_prompt_tokens = 3
    /\ call.result[1].num_generated_tokens = 4

----------------------------------------------------------------------------
(* Grit rows *)

\* the row and the result of the last preprocess
TheRow == call.row[1]
TheResult == call.result[1]

\* two of the row's intervals share a position
Overlapping(ref_exps) ==
    \E i, j \in 1..Len(ref_exps) :
        i # j /\ ref_exps[i][1] < ref_exps[j][2] /\ ref_exps[j][1] < ref_exps[i][2]

\* the caption with every interval replaced by one tag, read left to right
Tagged(caption, ref_exps) ==
    LET Piece(p) ==
            IF \E i \in 1..Len(ref_exps) : ref_exps[i][1] + 1 = p THEN <<RefTag>>
            ELSE IF \E i \in 1..Len(ref_exps) : ref_exps[i][1] < p /\ p <= ref_exps[i][2]
                 THEN <<>>
            ELSE <<caption[p]>>
        Flat[n \in 0..Len(caption)] == IF n = 0 THEN <<>> ELSE Flat[n - 1] \o Piece(n)
    IN  Flat[Len(caption)]

\* the place, counted from the left, of the tag that stands for ref_exps[i]
TagOf(ref_exps, i) ==
    1 + Cardinality({ j \in 1..Len(ref_exps) : ref_exps[j][1] < ref_exps[i][1] })

\* C29: GritPreprocessor.preprocess turns a row without overlapping
\* intervals into a response with one tag per referring expression and the
\* text outside the intervals kept in order, the k-th tag from the left
\* standing for the k-th entry of objects, whatever the order of ref_exps
\* in the row; a row with overlapping intervals yields the empty row.
C29_TagsAndObjectsInOneOrder ==
    call.op = "GritPreprocessor" =>
        IF Overlapping(TheRow.ref_exps) THEN TheResult.empty
        ELSE /\ ~TheResult.empty
             /\ TheResult.messages[2].content = Tagged(TheRow.caption, TheRow.ref_exps)
             /\ Len(TheResult.objects) = Len(TheRow.ref_exps)
             /\ \A i \in 1..Len(TheRow.ref_exps) :
                    LET object == TheResult.objects[TagOf(TheRow.ref_exps, i)]
                    IN  /\ object.caption = SubSeq(TheRow.caption, TheRow.ref_exps[i][1] + 1,
                                                   TheRow.ref_exps[i][2])
                        /\ object.bbox = TheRow.ref_exps[i][3]

----------------------------------------------------------------------------
(* Orpo rows *)

\* the first turn at which the two histories differ in content, 0 if none
Divergence(chosen, rejected) ==
    LET n == IF Len(chosen) < Len(rejected) THEN Len(chosen) ELSE Len(rejected)
        D == { i \in 1..n : chosen[i].content # rejected[i].content }
    IN  IF D = {} THEN 0 ELSE CHOOSE i \in D : \A j \in D : i <= j

\* the histories disagree in role, do not alternate user/assistant from
\* user on, or diverge on a turn that is not the assistant's
Rejectable(chosen, rejected) ==
    LET n == IF Len(chosen) < Len(rejected) THEN Len(chosen) ELSE Len(rejected)
    IN  \E i \in 1..n :
            \/ chosen[i].role # rejected[i].role
            \/ chosen[i].role # (IF i % 2 = 1 THEN "user" ELSE "assistant")
            \/ chosen[i].content # rejected[i].content /\ chosen[i].role # "assistant"

\* C30: OrpoDPOMix40kPreprocessor.preprocess terminates on every row; a
\* row whose histories disagree in role, do not alternate, or diverge on a
\* non-assistant turn gives the empty row with rejected_response None, any
\* other row gives messages ending with the chosen reply at the divergence
\* point and rejected_response the rejected reply at that point.
C30_OrpoReturnsARow ==
    call.op = "OrpoDPOMix40kPreprocessor" =>
        /\ TheResult.raised = "ok"
        /\ IF Rejectable(TheRow.chosen, TheRow.rejected)
           THEN TheResult.empty /\ TheResult.rejected_response = NoneStr
           ELSE LET d == Divergence(TheRow.chosen, TheRow.rejected)
                IN  d # 0 =>
                      /\ ~TheResult.empty
                      /\ TheResult.messages[Len(TheResult.messages)]
                           = Message("assistant", TheRow.chosen[d].content)
                      /\ TheResult.rejected_response = TheRow.rejected[d].content

----------------------------------------------------------------------------
(* Conversation records *)

Roles == { "system", "user", "assistant", "tool" }

\* every turn is a role/content pair
RoleContentPairs(messages) ==
    \A i \in 1..Len(messages) :
        /\ DOMAIN messages[i] = { "role", "content" }
        /\ messages[i].role \in Roles

\* after an optional leading system turn the turns alternate user,
\* assistant and end with an assistant turn
Alternating(messages) ==
    LET skip == IF messages # <<>> /\ messages[1].role = "system" THEN 1 ELSE 0
        n == Len(messages) - skip
    IN  /\ n > 0
        /\ n % 2 = 0
        /\ \A i \in 1..n :
               messages[skip + i].role = (IF i % 2 = 1 THEN "user" ELSE "assistant")

\* C23: every record with messages that a row preprocessor of dataset.py
\* hands on carries them as an ordered list of role/content pairs, each role
\* one of system, user, assistant, tool, the turns after an optional leading
\* system turn alternating user, assistant and ending with an assistant
\* turn.
C23_MessagesAreAConversation ==
    (call.op # "none" /\ TheResult.raised = "ok" /\ ~TheResult.empty) =>
        /\ RoleContentPairs(TheResult.messages)
        /\ Alternating(TheResult.messages)

----------------------------------------------------------------------------
(* Packed blocks *)

\* the tokens of the blocks, one block after the other
RECURSIVE BlockTokens(_)
BlockTokens(blocks) ==
    IF blocks = <<>> THEN <<>> ELSE Head(blocks).tokens \o BlockTokens(Tail(blocks))

\* the first n examples, each cut to L, one after the other
RECURSIVE CutExamples(_, _, _)
CutExamples(examples, n, L) ==
    IF n = 0 THEN <<>>
    ELSE CutExamples(examples, n - 1, L)
         \o (IF Len(examples[n]) <= L THEN examples[n]
             ELSE [p \in 1..L |-> examples[n][Len(examples[n]) - L + p]])

RECURSIVE SumMin(_, _, _)
SumMin(examples, n, L) ==
    IF n = 0 THEN 0
    ELSE SumMin(examples, n - 1, L) + (IF Len(examples[n]) < L THEN Len(examples[n]) ELSE L)

\* C21: a finite stream packed with block length L, which the training
\* pipeline sets to max_length, gives blocks none of which is longer than
\* L, holding the examples in their input order, the block lengths adding
\* up to the sum over the examples of min(len(example), L).
C21_PackingInvariant ==
    \A o \in 1..Len(heap) :
        LET p == heap[o]
            L == p.block_length
        IN  /\ L \in { args.max_length : args \in PackingArgs }
            /\ \A b \in 1..Len(p.blocks) : Len(p.blocks[b].tokens) <= L
            /\ BlockTokens(p.blocks) \o p.buffer = CutExamples(p.examples, p.next - 1, L)
            /\ p.done =>
                 /\ p.buffer = <<>>
                 /\ Len(BlockTokens(p.blocks)) = SumMin(p.examples, Len(p.examples), L)

\* a stream of three examples, one of them longer than L, packed to the end
\* into more than one block
C21_Witness ==
    \E o \in 1..Len(heap) :
        /\ heap[o].done
        /\ Len(heap[o].examples) = 3
        /\ \E i \in 1..3 : Len(heap[o].examples[i]) > heap[o].block_length
        /\ \E b \in 1..Len(heap[o].blocks) : Len(heap[o].blocks[b].offsets) = 2
        /\ Len(heap[o].blocks) = 2

----------------------------------------------------------------------------
(* The lazy source *)

\* C22: get(i) on an item on which encode fails records the error and
\* skips the position without aborting when strict is false, so that
\* positions on which encode succeeds are still obtained afterwards, and
\* lets the error through when strict is true; the lazy source of the
\* training and of the validation set both have the strict flag and the
\* data seed of the run.
C22_LazySkipsOrPropagates ==
    \A o \in 1..Len(heap) :
        LET source == heap[o]
        IN  /\ source.dataset.mode = "lazy"
            /\ source.dataset.part \in { "train", "val" }
            /\ source.dataset.strict = source.args_strict
            /\ source.dataset.random_state = source.args_data_seed
            /\ ~source.dataset.strict => ~source.aborted
            /\ (call.op = "get" /\ call.obj = o) =>
                 LET i == call.result[1].index
                     got == call.result[1].got
                 IN  IF source.raw[i] THEN call.raised = "ok" /\ got = i
                     ELSE IF source.dataset.strict
                          THEN call.raised = "EncodeError" /\ source.aborted
                     ELSE /\ call.raised = "ok"
                          /\ i \in source.errors
                          /\ got # i
                          /\ got # 0 => source.raw[got]

\* a validation source, strict false, that has recorded an error at the
\* first position and has then returned the item of a later position
C22_Witness ==
    \E o \in 1..Len(heap) :
        /\ heap[o].dataset.part = "val"
        /\ ~heap[o].dataset.strict
        /\ 1 \in heap[o].errors
        /\ heap[o].policy = "absent"
        /\ call.op = "get" /\ call.obj = o /\ call.raised = "ok"
        /\ call.result[1].index = 3 /\ call.result[1].got = 3

====
